---- MODULE Spec2Model ----
(***************************************************************************)
(* IBIS buffer-zone analysis and pipeline driver (scripts/buffer_zone.py,  *)
(* scripts/utils.py, run_ibis_pipeline.py).                                *)
(*                                                                         *)
(* The specifications share the pure operators below:                      *)
(*   Spec          one batch run, BufferZoneAnalyzer.run and               *)
(*                 process_coordinate_files, over a coordinates directory, *)
(*                 an images directory and a buffer-zone configuration;    *)
(*   SpecRerun     the batch run made twice on the same inputs;            *)
(*   SpecAffinity  direct calls of _apply_mask_and_get_affinity on drawn   *)
(*                 (seeds, niimg, radius, allow_overlap, mask_img), each   *)
(*                 followed by the record loop of                          *)
(*                 extract_buffer_zone_data (lines 80-96);                 *)
(*   SpecSweep     the same calls as a sweep over radii, the last two      *)
(*                 finished calls being kept;                              *)
(*   SpecValidate  utils.validate_config and validate_environment on drawn  *)
(*                 configurations;                                         *)
(*   SpecPipeline  IBISPipeline.run_pipeline on drawn step lists, the batch *)
(*                 run being its step buffer_zone.                         *)
(*                                                                         *)
(* Representation.  File names are tuples of character codes, so that      *)
(* sorted(), str.endswith and re.search act on characters.  Coordinates,   *)
(* radii and intensities are integers (mm, mm, intensity units); distances *)
(* are compared squared.  The statistics of a record are float32 numbers   *)
(* <<m, e>> = m * 2^e, computed with the roundings of numpy, and the       *)
(* missing value numpy.nan is <<>>.  Python's None is a record of kind     *)
(* "None".  A radius of 0 also stands for radius=None: both are falsy at   *)
(* line 71.                                                                *)
(***************************************************************************)
EXTENDS Integers, Sequences, FiniteSets, TLC

VARIABLES
    coordinates_dir,  \* <input_dir>/coordinates: [exists, entries]
    images_dir,       \* <input_dir>/images: [exists, entries]
    bz_config,        \* self.bz_config, the loaded buffer_zone_config.yaml
    allow_overlap,    \* self.allow_overlap
    psutil_available, \* whether `import psutil` succeeds in this process
    pc,               \* position in run / process_coordinate_files
    coord_files,      \* local coord_files
    default_image,    \* local default_image
    radius_options,   \* local radius_options
    file_i,           \* position of the outer for loop (1-based)
    radius_i,         \* position of the inner for loop (0: before line 110)
    subject_id,       \* local subject_id
    all_results,      \* local all_results: sequence of data frames
    output_csv,       \* <output_dir>/buffer_zone/buffer_zone_metrics.csv
    writes,           \* number of to_csv calls so far
    log,              \* entries emitted on self.logger
    calls,            \* extract_buffer_zone_data calls made so far
    u_seeds,          \* SpecAffinity: argument seeds
    u_niimg,          \* SpecAffinity: argument niimg
    u_mask_img,       \* SpecAffinity: argument mask_img
    u_allow_overlap,  \* SpecAffinity: argument allow_overlap
    u_radius,         \* SpecAffinity: argument radius of the last call
    u_calls,          \* SpecAffinity: number of calls made
    ret,              \* SpecAffinity: what the last call returned
    records,          \* SpecAffinity: rows built from the last return
    index_events,     \* "fit" / "radius_neighbors_graph" events, in order
    u_history,        \* SpecSweep: radius and records, last two finished calls
    listdir_reversed, \* the order os.listdir yields in the current run
    prev_run,         \* SpecRerun: what the previous run left, or None
    v_input,          \* SpecValidate: the configuration as drawn
    v_config,         \* SpecValidate: the configuration object passed
    validation,       \* SpecValidate: outcome of the validating call
    existing_dirs,    \* SpecValidate: the configured paths that exist
    steps,            \* SpecPipeline: argument steps of run_pipeline
    run_outcome,      \* SpecPipeline: what each component's run() does
    step_i,           \* SpecPipeline: position of the for loop (1-based)
    success_count,    \* SpecPipeline: local success_count
    started,          \* SpecPipeline: step names whose run() was called
    result            \* SpecPipeline: what run_pipeline returned

vars == <<coordinates_dir, images_dir, bz_config, allow_overlap,
          psutil_available, pc,
          coord_files, default_image, radius_options, file_i, radius_i,
          subject_id, all_results, output_csv, writes, log, calls,
          u_seeds, u_niimg, u_mask_img, u_allow_overlap, u_radius, u_calls,
          ret, records, index_events, u_history, listdir_reversed, prev_run,
          v_input, v_config, validation, existing_dirs, steps, run_outcome, step_i,
          success_count, started, result>>

input_vars == <<coordinates_dir, images_dir, bz_config, allow_overlap,
                psutil_available>>

batch_vars == <<input_vars,
                coord_files, default_image, radius_options, file_i, radius_i,
                subject_id, all_results, output_csv, writes, calls>>

unit_vars == <<u_seeds, u_niimg, u_mask_img, u_allow_overlap, u_radius,
               u_calls, ret, records, u_history>>

rerun_vars == <<listdir_reversed, prev_run>>

validate_vars == <<v_input, v_config, validation, existing_dirs>>

pipeline_vars == <<steps, run_outcome, step_i, success_count, started, result>>

ext_vars == <<rerun_vars, validate_vars, pipeline_vars>>

(***************************************************************************)
(* Bounds of the model.                                                    *)
(***************************************************************************)
MaxFiles == 2     \* entries in a listed directory
MaxSeeds == 2     \* seeds of one direct call
MaxRadius == 2    \* largest radius drawn (mm)
MaxCalls == 2     \* direct calls in one behaviour of SpecAffinity

\* self.default_radius when the configuration does not set it
DefaultRadius == 5

(***************************************************************************)
(* Arithmetic helpers.                                                     *)
(***************************************************************************)
Abs(n) == IF n < 0 THEN -n ELSE n

NaN == <<>>

RECURSIVE SortByKey(_, _)
\* the elements of the finite set S as a sequence of increasing key[x]
SortByKey(S, key) ==
    IF S = {} THEN <<>>
    ELSE LET m == CHOOSE x \in S : \A y \in S : key[x] <= key[y]
         IN <<m>> \o SortByKey(S \ {m}, key)

(***************************************************************************)
(* Python values.                                                          *)
(***************************************************************************)
None == [kind |-> "None"]
IsNone(x) == x.kind = "None"
PyBool(b) == [kind |-> "bool", value |-> b]
PyInt(value) == [kind |-> "int", value |-> value]
PyStr(value) == [kind |-> "str", value |-> value]
\* a list with the given items
PyList(items) == [kind |-> "list", items |-> items]
\* a dict: its <<key, value>> pairs in insertion order, the keys distinct
PyDict(pairs) == [kind |-> "dict", pairs |-> pairs]
EmptyDict == PyDict(<<>>)

\* "buffer_zone", "radius_options"
KEY_BUFFER_ZONE == PyStr(<<98, 117, 102, 102, 101, 114, 95, 122, 111, 110, 101>>)
KEY_RADIUS_OPTIONS == PyStr(<<114, 97, 100, 105, 117, 115, 95, 111, 112, 116, 105, 111, 110, 115>>)

\* dict.get(key, default)
dict_get(d, key, default) ==
    IF \E k \in 1..Len(d.pairs) : d.pairs[k][1] = key
    THEN d.pairs[CHOOSE k \in 1..Len(d.pairs) : d.pairs[k][1] = key][2]
    ELSE default

\* the truth value Python gives a value
truthy(value) ==
    IF IsNone(value) THEN FALSE
    ELSE IF value.kind = "bool" THEN value.value
    ELSE IF value.kind = "int" THEN value.value # 0
    ELSE IF value.kind = "str" THEN value.value # <<>>
    ELSE IF value.kind = "list" THEN value.items # <<>>
    ELSE IF value.kind = "dict" THEN value.pairs # <<>>
    ELSE TRUE

\* mutant of iterate: from the last item to the first
iterate_reversed(value) ==
    LET n == IF value.kind = "list" THEN Len(value.items)
             ELSE IF value.kind = "str" THEN Len(value.value)
             ELSE IF value.kind = "dict" THEN Len(value.pairs)
             ELSE 0
    IN [k \in 1..n |->
           IF value.kind = "list" THEN value.items[n + 1 - k]
           ELSE IF value.kind = "str" THEN PyStr(<<value.value[n + 1 - k]>>)
           ELSE value.pairs[n + 1 - k][1]]

\* what a for statement runs over: the items of a list, the characters of a
\* str, the keys of a dict in insertion order
iterate(value) ==
    IF value.kind = "list" THEN value.items
    ELSE IF value.kind = "str"
    THEN [k \in 1..Len(value.value) |-> PyStr(<<value.value[k]>>)]
    ELSE IF value.kind = "dict"
    THEN [k \in 1..Len(value.pairs) |-> value.pairs[k][1]]
    ELSE <<>>

(***************************************************************************)
(* float32.  apply_mask(..., dtype='f') gives the intensities as IEEE 754  *)
(* binary32 numbers and numpy keeps that precision in mean, std, max and   *)
(* min.  A finite float32 is <<m, e>>, the number m * 2^e with m odd and   *)
(* |m| < 2^24, or <<0, 0>>.  Every operation rounds its exact result to    *)
(* nearest, ties to even.  The limits of the exponent (overflow to inf,    *)
(* subnormal numbers) and the sign of zero are not represented: the values *)
(* of the model stay far from them.                                        *)
(***************************************************************************)
Pow2(k) == 2 ^ k

RECURSIVE BitLen(_)
\* the number of binary digits of n >= 0
BitLen(n) == IF n = 0 THEN 0 ELSE 1 + BitLen(n \div 2)

RECURSIVE Normal(_, _)
\* m * 2^e with the factors two of m moved into the exponent
Normal(m, e) ==
    IF m = 0 THEN <<0, 0>>
    ELSE IF m % 2 = 0 THEN Normal(m \div 2, e + 1)
    ELSE <<m, e>>

\* (n + f) * 2^e rounded to 24 significant bits, for n >= 0 and 0 <= f < 1;
\* inexact says that f > 0, and then n has at least 26 bits
RoundToNearest(n, e, inexact) ==
    LET bits == BitLen(n)
    IN IF bits <= 24 THEN Normal(n, e)
       ELSE LET s == bits - 24
                q == n \div Pow2(s)
                r == n % Pow2(s)
                half == Pow2(s - 1)
                up == r > half \/ (r = half /\ (inexact \/ q % 2 = 1))
            IN Normal(IF up THEN q + 1 ELSE q, e + s)

Signed(negative, f) == IF negative THEN <<-f[1], f[2]>> ELSE f

f32_neg(a) == <<-a[1], a[2]>>

\* numpy.asarray(..., dtype='f') of an integer
as_float32(c) == Signed(c < 0, RoundToNearest(Abs(c), 0, FALSE))

\* m * 2^shift cut to an integer: the integer part and whether bits were lost
Truncated(m, shift) ==
    IF shift >= 0 THEN [int |-> m * Pow2(shift), lost |-> FALSE]
    ELSE IF -shift > 30 THEN [int |-> 0, lost |-> TRUE]
    ELSE [int |-> m \div Pow2(-shift), lost |-> m % Pow2(-shift) # 0]

\* a + b in float32.  Both are brought to one scale; when they lie more than
\* 30 bits apart the smaller is cut at 29 bits below the top of the larger
\* and remembered as inexact.
f32_add(a, b) ==
    IF a[1] = 0 THEN b
    ELSE IF b[1] = 0 THEN a
    ELSE LET top_a == a[2] + BitLen(Abs(a[1]))
             top_b == b[2] + BitLen(Abs(b[1]))
             top == IF top_a >= top_b THEN top_a ELSE top_b
             low == IF a[2] <= b[2] THEN a[2] ELSE b[2]
             scale == IF top - low <= 30 THEN low ELSE top - 29
             ta == Truncated(Abs(a[1]), a[2] - scale)
             tb == Truncated(Abs(b[1]), b[2] - scale)
             a_larger == ta.int > tb.int \/ (ta.int = tb.int /\ tb.lost)
             big == IF a_larger THEN ta ELSE tb
             small == IF a_larger THEN tb ELSE ta
             negative == IF a_larger THEN a[1] < 0 ELSE b[1] < 0
         IN IF (a[1] < 0) = (b[1] < 0)
            THEN Signed(negative,
                        RoundToNearest(ta.int + tb.int, scale,
                                       ta.lost \/ tb.lost))
            ELSE IF small.lost
            THEN Signed(negative,
                        RoundToNearest(big.int - small.int - 1, scale, TRUE))
            ELSE Signed(negative,
                        RoundToNearest(big.int - small.int, scale, FALSE))

\* a < b for float32 numbers
f32_less(a, b) == f32_add(a, f32_neg(b))[1] < 0

\* a * b in float32: the 48-bit product of the mantissas is formed from
\* 12-bit halves as hi * 2^24 + lo
f32_mul(a, b) ==
    LET ma == Abs(a[1])
        mb == Abs(b[1])
        ah == ma \div 4096
        al == ma % 4096
        bh == mb \div 4096
        bl == mb % 4096
        cross == ah * bl + al * bh
        low == (cross % 4096) * 4096 + al * bl
        hi == ah * bh + cross \div 4096 + low \div 16777216
        lo == low % 16777216
        keep == IF 30 - BitLen(hi) >= 24 THEN 24 ELSE 30 - BitLen(hi)
        negative == (a[1] < 0) # (b[1] < 0)
        e == a[2] + b[2]
    IN IF hi = 0 THEN Signed(negative, RoundToNearest(lo, e, FALSE))
       ELSE Signed(negative,
                   RoundToNearest(hi * Pow2(keep) + lo \div Pow2(24 - keep),
                                  e + 24 - keep,
                                  lo % Pow2(24 - keep) # 0))

RECURSIVE Quotient(_, _, _, _)
\* long division by n continued from quotient q and remainder r, one bit at
\* a time, until the quotient has 26 bits or the division is exact
Quotient(q, r, n, e) ==
    IF r = 0 \/ q >= 33554432 THEN <<q, r, e>>
    ELSE Quotient(2 * q + (IF 2 * r >= n THEN 1 ELSE 0), (2 * r) % n, n, e - 1)

\* a / n in float32 for a count n >= 1.  numpy divides a float32 scalar by
\* the count in float64 and converts back; for n < 2^28 that is the exact
\* quotient rounded once.
f32_div(a, n) ==
    LET ma == Abs(a[1])
        d == Quotient(ma \div n, ma % n, n, a[2])
    IN Signed(a[1] < 0, RoundToNearest(d[1], d[3], d[2] # 0))

RECURSIVE ISqrt(_, _, _)
\* integer square root, digit by digit: <<root, remainder>> of m, started
\* with res = 0 and bit a power of four
ISqrt(m, res, bit) ==
    IF bit = 0 THEN <<res, m>>
    ELSE IF m >= res + bit
    THEN ISqrt(m - res - bit, res \div 2 + bit, bit \div 4)
    ELSE ISqrt(m, res \div 2, bit \div 4)

RECURSIVE RootBits(_, _, _)
\* the square root continued below the binary point, one bit at a time,
\* until the root has 26 bits or the root is exact
RootBits(root, rem, e) ==
    IF rem = 0 \/ root >= 33554432 THEN <<root, rem, e>>
    ELSE IF 4 * rem >= 4 * root + 1
    THEN RootBits(2 * root + 1, 4 * rem - 4 * root - 1, e - 1)
    ELSE RootBits(2 * root, 4 * rem, e - 1)

\* numpy.sqrt of a float32 a >= 0
f32_sqrt(a) ==
    LET even == a[2] % 2 = 0
        m == IF even THEN a[1] ELSE 2 * a[1]
        e == IF even THEN a[2] ELSE a[2] - 1
        whole == ISqrt(m, 0, 16777216)
        r == RootBits(whole[1], whole[2], e \div 2)
    IN RoundToNearest(r[1], r[3], r[2] # 0)

RECURSIVE np_sum(_, _)
\* numpy.add.reduce of float32 values onto the start value: fewer than
\* eight values are added one after the other in index order (the volumes
\* of the model have four voxels)
np_sum(values, start) ==
    IF values = <<>> THEN start
    ELSE np_sum(Tail(values), f32_add(start, Head(values)))

\* numpy.mean of a non-empty sequence of float32: the float32 sum divided by
\* the count
np_mean(values) == f32_div(np_sum(values, <<0, 0>>), Len(values))

\* numpy.std (population, ddof = 0) of a non-empty sequence of float32: the
\* deviations from the float32 mean, their squares, the mean of the squares
\* and its square root, each in float32
np_std(values) ==
    LET n == Len(values)
        arrmean == f32_div(np_sum(values, <<0, 0>>), n)
        x == [k \in 1..n |-> f32_add(values[k], f32_neg(arrmean))]
        squares == [k \in 1..n |-> f32_mul(x[k], x[k])]
    IN f32_sqrt(f32_div(np_sum(squares, <<0, 0>>), n))

\* numpy.max and numpy.min of a non-empty sequence of float32
np_max(values) ==
    CHOOSE m \in {values[k] : k \in 1..Len(values)} :
        \A k \in 1..Len(values) : ~f32_less(m, values[k])
np_min(values) ==
    CHOOSE m \in {values[k] : k \in 1..Len(values)} :
        \A k \in 1..Len(values) : ~f32_less(values[k], m)

(***************************************************************************)
(* Volumes.  An image is [kind |-> "img", shape, affine, data]: data maps  *)
(* each voxel index <<i, j, k>> to its intensity, affine is the top three  *)
(* rows of the 4x4 voxel-to-world matrix.  A mask image has data in 0..1.  *)
(***************************************************************************)
VoxelsOf(shape) ==
    {<<i, j, k>> : i \in 0..(shape[1] - 1), j \in 0..(shape[2] - 1),
                   k \in 0..(shape[3] - 1)}

\* position of a voxel in C (row-major) order, the order of numpy.nonzero,
\* numpy.where and boolean indexing
COrder(shape) ==
    [v \in VoxelsOf(shape) |-> (v[1] * shape[2] + v[2]) * shape[3] + v[3]]

\* numpy.nonzero(mask) / numpy.where(mask != 0): active voxels in C order
np_nonzero(mask_img) ==
    SortByKey({v \in VoxelsOf(mask_img.shape) : mask_img.data[v] # 0},
              COrder(mask_img.shape))

\* mutant of coord_transform: the affine is not applied
coord_transform_raw(x, y, z, affine) == <<x, y, z>>

\* nilearn.image.resampling.coord_transform for one point
coord_transform(x, y, z, affine) ==
    [d \in 1..3 |-> affine[d][1] * x + affine[d][2] * y + affine[d][3] * z
                    + affine[d][4]]

\* nilearn.masking.apply_mask(niimg, mask_img, dtype='f') for a 3-D image:
\* the intensities at the active voxels, in C order, as float32
apply_mask(niimg, mask_img) ==
    LET vox == np_nonzero(mask_img)
    IN [k \in 1..Len(vox) |-> as_float32(niimg.data[vox[k]])]

\* squared Euclidean distance of two points
Dist2(p, q) ==
    (p[1] - q[1]) * (p[1] - q[1]) + (p[2] - q[2]) * (p[2] - q[2])
    + (p[3] - q[3]) * (p[3] - q[3])

\* mutant of radius_neighbors_graph: the radius taken for twice its value
radius_neighbors_graph_doubled(points, seeds, radius) ==
    [i \in 1..Len(seeds) |->
        {j \in 0..(Len(points) - 1) :
            Dist2(seeds[i], points[j + 1]) <= 4 * radius * radius}]

\* mutant of radius_neighbors_graph: only the points at the radius itself
radius_neighbors_graph_shell(points, seeds, radius) ==
    [i \in 1..Len(seeds) |->
        {j \in 0..(Len(points) - 1) :
            Dist2(seeds[i], points[j + 1]) = radius * radius}]

\* sklearn NearestNeighbors(radius).fit(points).radius_neighbors_graph(seeds)
\* in connectivity mode: row i holds the 0-based indices of the fitted
\* points whose distance to seed i is <= radius
radius_neighbors_graph(points, seeds, radius) ==
    [i \in 1..Len(seeds) |->
        {j \in 0..(Len(points) - 1) :
            Dist2(seeds[i], points[j + 1]) <= radius * radius}]

\* what a call returns, or that it raised
Raised(events) ==
    [raised |-> TRUE, has_X |-> FALSE, X |-> <<>>, A |-> <<>>,
     events |-> events]

\* lines 63-68: index the world coordinates of mask_coords and query it
\* with all seeds at once
index_and_query(seeds, mask_coords, affine, radius, has_X, X) ==
    IF mask_coords = <<>>
    THEN Raised(<<>>)            \* line 64: mask_coords[0] of an empty array
    ELSE LET world == [k \in 1..Len(mask_coords) |->
                          coord_transform(mask_coords[k][1], mask_coords[k][2],
                                          mask_coords[k][3], affine)]
         IN IF seeds = <<>>
            THEN Raised(<<"fit">>)   \* line 67: no sample to query
            ELSE [raised |-> FALSE, has_X |-> has_X, X |-> X,
                  A |-> radius_neighbors_graph(world, seeds, radius),
                  events |-> <<"fit", "radius_neighbors_graph">>]

\* nilearn.masking._load_mask_img raises for a mask without active voxel
mask_is_empty(mask_img) == \A v \in VoxelsOf(mask_img.shape) : mask_img.data[v] = 0

\* nilearn.image.resample_img(mask_img, target_affine, target_shape,
\* interpolation='nearest'); the model draws masks on the target grid only,
\* where every target voxel is its own nearest source voxel
resample_img(mask_img, target_affine, target_shape) ==
    [kind |-> "img", shape |-> target_shape, affine |-> target_affine,
     data |-> [v \in VoxelsOf(target_shape) |-> mask_img.data[v]]]

\* mutant of _apply_mask_and_get_affinity: unless overlap is allowed, a
\* voxel counts for the first seed that reaches it only
apply_mask_exclusive(seeds, niimg, radius, overlap, mask_img) ==
    LET out ==
            IF IsNone(niimg)
            THEN IF IsNone(mask_img) \/ mask_is_empty(mask_img)
                 THEN Raised(<<>>)
                 ELSE index_and_query(seeds, np_nonzero(mask_img),
                                      mask_img.affine, radius, FALSE, <<>>)
            ELSE IF ~IsNone(mask_img)
            THEN LET resampled ==
                         resample_img(mask_img, niimg.affine, niimg.shape)
                 IN IF mask_is_empty(resampled)
                    THEN Raised(<<>>)
                    ELSE index_and_query(seeds, np_nonzero(resampled),
                                         niimg.affine, radius, TRUE,
                                         apply_mask(niimg, resampled))
            ELSE Raised(<<>>)
    IN IF overlap \/ out.raised THEN out
       ELSE [out EXCEPT !.A =
                [i \in 1..Len(seeds) |->
                    out.A[i] \ UNION {out.A[k] : k \in 1..(i - 1)}]]

\* BufferZoneAnalyzer._apply_mask_and_get_affinity
_apply_mask_and_get_affinity(seeds, niimg, radius, overlap, mask_img) ==
    IF IsNone(niimg)
    THEN IF IsNone(mask_img) \/ mask_is_empty(mask_img)
         THEN Raised(<<>>)                                  \* line 50
         ELSE index_and_query(seeds, np_nonzero(mask_img), mask_img.affine,
                              radius, FALSE, <<>>)
    ELSE IF ~IsNone(mask_img)
    THEN LET resampled == resample_img(mask_img, niimg.affine, niimg.shape)
         IN IF mask_is_empty(resampled)
            THEN Raised(<<>>)                               \* line 57
            ELSE index_and_query(seeds, np_nonzero(resampled), niimg.affine,
                                 radius, TRUE, apply_mask(niimg, resampled))
    ELSE Raised(<<>>)                                       \* line 62

\* lines 85-95: the record of seed i (0-based) with neighbours sphere_voxels
seed_record(i, seed, radius, sphere_voxels, has_X, X) ==
    LET cols == SortByKey(sphere_voxels, [j \in sphere_voxels |-> j])
        sphere_values == [k \in 1..Len(cols) |-> X[cols[k] + 1]]
    IN [seed_id |-> i, x |-> seed[1], y |-> seed[2], z |-> seed[3],
        radius_mm |-> radius, voxel_count |-> Cardinality(sphere_voxels),
        mean_value |-> IF has_X THEN np_mean(sphere_values) ELSE NaN,
        std_value |-> IF has_X THEN np_std(sphere_values) ELSE NaN,
        max_value |-> IF has_X THEN np_max(sphere_values) ELSE NaN,
        min_value |-> IF has_X THEN np_min(sphere_values) ELSE NaN]

\* mutant of seed_is_skipped: the check of line 83 left out
seed_never_skipped(sphere_voxels) == FALSE

\* line 83: a seed without neighbour is skipped
seed_is_skipped(sphere_voxels) == Cardinality(sphere_voxels) = 0

\* mutant of results_loop: seed_id counts the records, not the rows
results_loop_renumbered(seeds, radius, has_X, X, A) ==
    LET kept == SelectSeq([i \in 1..Len(seeds) |-> i],
                          LAMBDA i : ~seed_is_skipped(A[i]))
    IN [k \in 1..Len(kept) |->
           seed_record(k - 1, seeds[kept[k]], radius, A[kept[k]], has_X, X)]

\* lines 80-96: one record per seed that is not skipped, in seed order
results_loop(seeds, radius, has_X, X, A) ==
    LET kept == SelectSeq([i \in 1..Len(seeds) |-> i],
                          LAMBDA i : ~seed_is_skipped(A[i]))
    IN [k \in 1..Len(kept) |->
           seed_record(kept[k] - 1, seeds[kept[k]], radius, A[kept[k]],
                       has_X, X)]


(***************************************************************************)
(* File names and suffixes of the model, as character codes.               *)
(***************************************************************************)
\* ".csv"
CSV == <<46, 99, 115, 118>>
\* ".nii.gz"
NIIGZ == <<46, 110, 105, 105, 46, 103, 122>>
\* ".nii"
NII == <<46, 110, 105, 105>>
\* "0002_b.csv"
NAME_0002_B == <<48, 48, 48, 50, 95, 98, 46, 99, 115, 118>>
\* "0001_a.csv"
NAME_0001_A == <<48, 48, 48, 49, 95, 97, 46, 99, 115, 118>>
\* "a0003.csv"
NAME_A0003 == <<97, 48, 48, 48, 51, 46, 99, 115, 118>>
\* "Z0004.csv"
NAME_Z0004 == <<90, 48, 48, 48, 52, 46, 99, 115, 118>>
\* "0000_h.csv"
NAME_0000_H == <<48, 48, 48, 48, 95, 104, 46, 99, 115, 118>>
\* "sub_e.csv"
NAME_SUB_E == <<115, 117, 98, 95, 101, 46, 99, 115, 118>>
\* "notes.txt"
NAME_NOTES == <<110, 111, 116, 101, 115, 46, 116, 120, 116>>
\* "0008.csv"
NAME_0008_DIR == <<48, 48, 48, 56, 46, 99, 115, 118>>
\* "12\u0663\u06645_6789.csv": ASCII digits, ARABIC-INDIC DIGIT THREE and FOUR
NAME_MIXED_DIGITS ==
    <<49, 50, 1635, 1636, 53, 95, 54, 55, 56, 57, 46, 99, 115, 118>>
\* "6966_coords.csv", the name test_utils passes
NAME_6966_COORDS == <<54, 57, 54, 54, 95, 99, 111, 111, 114, 100, 115, 46, 99, 115, 118>>
\* "img.nii.gz"
NAME_IMG == <<105, 109, 103, 46, 110, 105, 105, 46, 103, 122>>
\* "bad.nii"
NAME_BAD == <<98, 97, 100, 46, 110, 105, 105>>
\* "readme.md"
NAME_README == <<114, 101, 97, 100, 109, 101, 46, 109, 100>>


(***************************************************************************)
(* Strings, as tuples of character codes.                                  *)
(***************************************************************************)
\* the code points that are the digit zero of a decimal script (Unicode
\* category Nd, as compiled into Python 3.11); the nine code points after
\* each are its digits one to nine
DigitZeros ==
    {48, 1632, 1776, 1984, 2406, 2534, 2662, 2790, 2918, 3046,
     3174, 3302, 3430, 3558, 3664, 3792, 3872, 4160, 4240, 6112,
     6160, 6470, 6608, 6784, 6800, 6992, 7088, 7232, 7248, 42528,
     43216, 43264, 43472, 43504, 43600, 44016, 65296, 66720, 68912, 69734,
     69872, 69942, 70096, 70384, 70736, 70864, 71248, 71360, 71472, 71904,
     72016, 72784, 73040, 73120, 92768, 92864, 93008, 120782, 120792, 120802,
     120812, 120822, 123200, 123632, 125264, 130032}

\* what \d matches in a str pattern: any Unicode decimal digit
IsDigit(c) ==
    IF c < 128 THEN 48 <= c /\ c <= 57       \* the ASCII digits, zero 48
    ELSE \E zero \in DigitZeros : zero <= c /\ c <= zero + 9

\* str.endswith
EndsWith(s, suffix) ==
    /\ Len(suffix) <= Len(s)
    /\ SubSeq(s, Len(s) - Len(suffix) + 1, Len(s)) = suffix

RECURSIVE StrLess(_, _)
\* s < t for Python strings: code point by code point, a proper prefix first
StrLess(s, t) ==
    IF t = <<>> THEN FALSE
    ELSE IF s = <<>> THEN TRUE
    ELSE IF Head(s) # Head(t) THEN Head(s) < Head(t)
    ELSE StrLess(Tail(s), Tail(t))

RECURSIVE NameOrder(_)
\* the directory entries of S in increasing order of name
NameOrder(S) ==
    IF S = {} THEN <<>>
    ELSE LET m == CHOOSE x \in S :
                      \A y \in S : y.name = x.name \/ StrLess(x.name, y.name)
         IN <<m>> \o NameOrder(S \ {m})

\* os.listdir yields the entries in arbitrary order: the model draws, for
\* every run, between the increasing and the decreasing order of names
os_listdir(directory) ==
    LET up == NameOrder(directory.entries)
    IN IF listdir_reversed
       THEN [k \in 1..Len(up) |-> up[Len(up) + 1 - k]]
       ELSE up

\* mutant of sorted: the files stay in the order of the listing
sorted_as_listed(files) == files

\* sorted(files): the paths in increasing order; all paths of one listing
\* share the directory prefix and differ in their names, so the names decide
sorted(files) == NameOrder({files[k] : k \in 1..Len(files)})

\* utils.get_file_list
get_file_list(directory, file_patterns) ==
    IF ~directory.exists THEN <<>>
    ELSE sorted(SelectSeq(os_listdir(directory),
                          LAMBDA e :
                              /\ e.isfile
                              /\ \E k \in 1..Len(file_patterns) :
                                     EndsWith(e.name, file_patterns[k])))

\* mutant of extract_subject_id: the rightmost run of four digits
extract_subject_id_last(filename) ==
    LET starts == {i \in 1..(Len(filename) - 3) :
                      \A d \in 0..3 : IsDigit(filename[i + d])}
    IN IF starts = {} THEN None
       ELSE LET i == CHOOSE a \in starts : \A b \in starts : a >= b
            IN PyStr(SubSeq(filename, i, i + 3))

\* utils.extract_subject_id with the pattern (\d{4}): the leftmost run of
\* four digits, or None
extract_subject_id(filename) ==
    LET starts == {i \in 1..(Len(filename) - 3) :
                      \A d \in 0..3 : IsDigit(filename[i + d])}
    IN IF starts = {} THEN None
       ELSE LET i == CHOOSE a \in starts : \A b \in starts : a <= b
            IN PyStr(SubSeq(filename, i, i + 3))

csv_patterns == <<CSV>>
image_patterns == <<NIIGZ, NII>>

(***************************************************************************)
(* Logging.                                                                *)
(***************************************************************************)
LogEntry(level, msg) == [level |-> level, msg |-> msg]

\* utils.log_memory_usage: the memory of the process at level info, or, when
\* psutil cannot be imported, a note at level debug
log_memory_usage(description) ==
    IF psutil_available
    THEN <<LogEntry("info", description)>>
    ELSE <<LogEntry("debug", "psutil not available for memory logging")>>

(***************************************************************************)
(* extract_buffer_zone_data.  A coordinate file is                         *)
(* [name, isfile, readable, columns, seeds]: readable is "ok",             *)
(* "parse_error" or "unreadable" (pandas.read_csv raises for the last      *)
(* two).  An image file is [name, isfile, loadable, img].                  *)
(***************************************************************************)
required_cols == {"X", "Y", "Z"}

\* mutant of extract_except: the exception is logged and raised again
extract_except_reraise(events) ==
    [raised |-> TRUE, df |-> <<>>,
     log |-> <<[level |-> "error", msg |-> "Error extracting buffer zone"]>>,
     events |-> events]

\* lines 97-99: any exception is logged and becomes an empty data frame
extract_except(events) ==
    [raised |-> FALSE, df |-> <<>>,
     log |-> <<LogEntry("error", "Error extracting buffer zone")>>,
     events |-> events]

\* line 71: radius = radius or self.default_radius
radius_or_default(self, radius) ==
    IF truthy(radius) THEN radius ELSE PyInt(self.default_radius)

\* line 88: numpy.max of an empty selection raises ValueError
stats_raise(has_X, sphere_voxels) == has_X /\ Cardinality(sphere_voxels) = 0

\* lines 80-99 on what line 79 returned: the data frame of the records, or
\* the handler when line 79 or a statistic raised
build_results(seeds, radius, out) ==
    IF out.raised THEN extract_except(out.events)
    ELSE IF \E i \in 1..Len(seeds) :
                ~seed_is_skipped(out.A[i]) /\ stats_raise(out.has_X, out.A[i])
    THEN extract_except(out.events)
    ELSE [raised |-> FALSE,
          df |-> results_loop(seeds, radius, out.has_X, out.X, out.A),
          log |-> <<>>, events |-> out.events]

\* BufferZoneAnalyzer.extract_buffer_zone_data
extract_buffer_zone_data(self, coordinates_file, image_file, radius) ==
    LET r == radius_or_default(self, radius)
    IN IF coordinates_file.readable # "ok"
       THEN extract_except(<<>>)                            \* line 73
       ELSE IF ~(required_cols \subseteq coordinates_file.columns)
       THEN [raised |-> FALSE, df |-> <<>>, log |-> <<>>,   \* line 76
             events |-> <<>>]
       ELSE IF ~image_file.loadable
       THEN extract_except(<<>>)                            \* line 78
       ELSE IF r.kind # "int"
       THEN extract_except(<<>>)         \* line 79: line 62 raises before
                                         \* the radius is read
       ELSE build_results(coordinates_file.seeds, r.value,
                          _apply_mask_and_get_affinity(
                              coordinates_file.seeds, image_file.img, r.value,
                              self.allow_overlap, None))    \* line 79

(***************************************************************************)
(* process_coordinate_files and run.                                       *)
(***************************************************************************)
\* line 116: df['subject_id'] = subject_id
with_subject_id(df, sid) ==
    [k \in 1..Len(df) |-> df[k] @@ [subject_id |-> sid]]

RECURSIVE pd_concat(_)
\* pandas.concat(frames, ignore_index=True): the rows of the frames, in order
pd_concat(frames) ==
    IF frames = <<>> THEN <<>> ELSE Head(frames) \o pd_concat(Tail(frames))

\* _load_bz_config on the state of config/buffer_zone_config.yaml,
\* [exists, loads, document]: loads is FALSE when yaml cannot be imported or
\* the text is not YAML, document is what yaml.safe_load gives
_load_bz_config(file) ==
    IF ~file.exists THEN [value |-> EmptyDict, log |-> <<>>]
    ELSE IF ~file.loads
    THEN [value |-> EmptyDict,
          log |-> <<LogEntry("warning", "Could not load buffer zone config")>>]
    ELSE [value |-> file.document, log |-> <<>>]

\* line 107: self.bz_config.get('buffer_zone', {}).get('radius_options',
\* [self.default_radius]); only a dict has the method get
get_radius_options(self, config) ==
    IF config.kind # "dict"
    THEN [raised |-> TRUE, exc |-> "AttributeError", value |-> None]
    ELSE LET buffer_zone == dict_get(config, KEY_BUFFER_ZONE, EmptyDict)
         IN IF buffer_zone.kind # "dict"
            THEN [raised |-> TRUE, exc |-> "AttributeError", value |-> None]
            ELSE [raised |-> FALSE, exc |-> "none",
                  value |-> dict_get(buffer_zone, KEY_RADIUS_OPTIONS,
                                     PyList(<<PyInt(self.default_radius)>>))]

\* line 113: iter(radius_options) raises TypeError for None and for a number;
\* a list, a str and a dict are iterated
is_iterable(value) == value.kind \in {"list", "str", "dict"}

\* lines 118-120: the table is written when some frame was collected;
\* pandas.concat raises for an empty list
write_results(results) ==
    IF results # <<>>
    THEN [raised |-> FALSE, written |-> TRUE, rows |-> pd_concat(results)]
    ELSE [raised |-> FALSE, written |-> FALSE, rows |-> <<>>]

Self == [default_radius |-> DefaultRadius, allow_overlap |-> allow_overlap]

NoFile == [exists |-> FALSE, rows |-> <<>>]

\* lines 128-130: run logs the failure and re-raises
run_except == <<LogEntry("error", "Buffer zone analysis failed")>>

\* run lines 123-126, process_coordinate_files lines 102-108
run_begin ==
    /\ pc = "run"
    /\ LET files == get_file_list(coordinates_dir, csv_patterns)
           image_files == get_file_list(images_dir, image_patterns)
       IN /\ coord_files' = files
          /\ IF files = <<>> \/ image_files = <<>>
             THEN /\ pc' = "returned"                       \* line 105
                  /\ UNCHANGED <<default_image, radius_options>>
             ELSE LET options == get_radius_options(Self, bz_config)
                  IN /\ default_image' = image_files[1]
                     /\ IF options.raised                   \* line 107
                        THEN /\ pc' = "raised"
                             /\ radius_options' = radius_options
                        ELSE /\ pc' = "loop"
                             /\ radius_options' = options.value
          /\ log' = log
                    \o <<LogEntry("info", "Starting buffer zone analysis...")>>
                    \o log_memory_usage("Initial")
                    \o IF /\ files # <<>>
                          /\ image_files # <<>>
                          /\ get_radius_options(Self, bz_config).raised
                       THEN run_except
                       ELSE <<>>
    /\ file_i' = 1
    /\ radius_i' = 0
    /\ all_results' = <<>>
    /\ UNCHANGED <<input_vars,
                   subject_id, output_csv, writes, calls, index_events>>
    /\ UNCHANGED unit_vars
    /\ UNCHANGED ext_vars

\* lines 109-112: the next coordinate file and its subject identifier
loop_subject ==
    /\ pc = "loop"
    /\ file_i <= Len(coord_files)
    /\ radius_i = 0
    /\ LET sid == extract_subject_id(coord_files[file_i].name)
       IN /\ subject_id' = sid
          /\ IF IsNone(sid)                                 \* line 112
             THEN /\ file_i' = file_i + 1
                  /\ radius_i' = 0
                  /\ UNCHANGED <<pc, log>>
             ELSE IF ~is_iterable(radius_options)           \* line 113
             THEN /\ pc' = "raised"
                  /\ log' = log \o run_except
                  /\ UNCHANGED <<file_i, radius_i>>
             ELSE /\ file_i' = file_i
                  /\ radius_i' = 1
                  /\ UNCHANGED <<pc, log>>
    /\ UNCHANGED <<input_vars,
                   coord_files, default_image, radius_options, all_results,
                   output_csv, writes, calls, index_events>>
    /\ UNCHANGED unit_vars
    /\ UNCHANGED ext_vars

\* mutant of loop_extract: every frame is kept and the table is written
\* inside the loop
loop_extract_writes ==
    /\ pc = "loop"
    /\ file_i <= Len(coord_files)
    /\ radius_i >= 1
    /\ radius_i <= Len(iterate(radius_options))
    /\ LET coord_file == coord_files[file_i]
           radius == iterate(radius_options)[radius_i]
           res == extract_buffer_zone_data(Self, coord_file, default_image,
                                           radius)
           kept == Append(all_results, with_subject_id(res.df, subject_id))
       IN /\ calls' = Append(calls, [file |-> coord_file, radius |-> radius,
                                     subject_id |-> subject_id,
                                     logged |-> Len(res.log),
                                     rows |-> Len(res.df)])
          /\ index_events' = index_events \o res.events
          /\ log' = log \o res.log
          /\ radius_i' = radius_i + 1
          /\ all_results' = kept
          /\ output_csv' = [exists |-> TRUE, rows |-> pd_concat(kept)]
          /\ writes' = writes + 1
    /\ UNCHANGED <<input_vars, pc,
                   coord_files, default_image, radius_options, file_i,
                   subject_id>>
    /\ UNCHANGED unit_vars
    /\ UNCHANGED ext_vars

\* lines 113-117: one radius of the current coordinate file
loop_extract ==
    /\ pc = "loop"
    /\ file_i <= Len(coord_files)
    /\ radius_i >= 1
    /\ radius_i <= Len(iterate(radius_options))
    /\ LET coord_file == coord_files[file_i]
           radius == iterate(radius_options)[radius_i]
           res == extract_buffer_zone_data(Self, coord_file, default_image,
                                           radius)
       IN /\ calls' = Append(calls, [file |-> coord_file, radius |-> radius,
                                     subject_id |-> subject_id,
                                     logged |-> Len(res.log),
                                     rows |-> Len(res.df)])
          /\ index_events' = index_events \o res.events
          /\ IF res.raised
             THEN /\ pc' = "raised"
                  /\ log' = log \o res.log \o run_except
                  /\ UNCHANGED <<all_results, radius_i>>
             ELSE /\ pc' = pc
                  /\ log' = log \o res.log
                  /\ radius_i' = radius_i + 1
                  /\ all_results' =
                         IF res.df # <<>>                   \* line 115
                         THEN Append(all_results,
                                     with_subject_id(res.df, subject_id))
                         ELSE all_results
    /\ UNCHANGED <<input_vars,
                   coord_files, default_image, radius_options, file_i,
                   subject_id, output_csv, writes>>
    /\ UNCHANGED unit_vars
    /\ UNCHANGED ext_vars

\* line 113 exhausted: back to line 109
loop_next_file ==
    /\ pc = "loop"
    /\ file_i <= Len(coord_files)
    /\ radius_i >= 1
    /\ radius_i > Len(iterate(radius_options))
    /\ file_i' = file_i + 1
    /\ radius_i' = 0
    /\ UNCHANGED <<input_vars, pc,
                   coord_files, default_image, radius_options, subject_id,
                   all_results, output_csv, writes, log, calls, index_events>>
    /\ UNCHANGED unit_vars
    /\ UNCHANGED ext_vars

\* lines 118-120, after the loop
write_table ==
    /\ pc = "loop"
    /\ file_i > Len(coord_files)
    /\ LET w == write_results(all_results)
       IN IF w.raised
          THEN /\ pc' = "raised"
               /\ log' = log \o run_except
               /\ UNCHANGED <<output_csv, writes>>
          ELSE /\ pc' = "returned"
               /\ log' = log
               /\ output_csv' = IF w.written
                                THEN [exists |-> TRUE, rows |-> w.rows]
                                ELSE output_csv
               /\ writes' = IF w.written THEN writes + 1 ELSE writes
    /\ UNCHANGED <<input_vars,
                   coord_files, default_image, radius_options, file_i,
                   radius_i, subject_id, all_results, calls, index_events>>
    /\ UNCHANGED unit_vars
    /\ UNCHANGED ext_vars

\* run line 127: process_coordinate_files has returned
run_finish ==
    /\ pc = "returned"
    /\ pc' = "done"
    /\ log' = log \o log_memory_usage("Final")
    /\ UNCHANGED <<input_vars,
                   coord_files, default_image, radius_options, file_i,
                   radius_i, subject_id, all_results, output_csv, writes,
                   calls, index_events>>
    /\ UNCHANGED unit_vars
    /\ UNCHANGED ext_vars

\* run is called a second time on the inputs and the output directory the
\* first run left
run_again ==
    /\ pc = "done"
    /\ IsNone(prev_run)
    /\ prev_run' = [kind |-> "run", output_csv |-> output_csv,
                    all_results |-> all_results, calls |-> calls,
                    listdir_reversed |-> listdir_reversed]
    /\ listdir_reversed' \in BOOLEAN
    /\ pc' = "run"
    /\ coord_files' = <<>>
    /\ default_image' = None
    /\ radius_options' = PyList(<<>>)
    /\ file_i' = 1
    /\ radius_i' = 0
    /\ subject_id' = None
    /\ all_results' = <<>>
    /\ writes' = 0
    /\ log' = <<>>
    /\ calls' = <<>>
    /\ index_events' = <<>>
    /\ UNCHANGED <<input_vars,
                   output_csv>>
    /\ UNCHANGED <<unit_vars, validate_vars, pipeline_vars>>

NotValidated == [done |-> FALSE, call |-> "none", raised |-> "none", msg |-> ""]

ValidateIdle ==
    /\ v_input = None
    /\ v_config = None
    /\ validation = NotValidated
    /\ existing_dirs = {}

StepNames ==
    <<"roi_extraction", "buffer_zone", "variable_extraction", "consolidation">>

\* the steps whose component is taken by its outcome only
OutcomeSteps == {"roi_extraction", "variable_extraction", "consolidation"}

PipelineIdle ==
    /\ steps = <<>>
    /\ run_outcome = [n \in OutcomeSteps |-> "returns"]
    /\ step_i = 1
    /\ success_count = 0
    /\ started = <<>>
    /\ result = None

(***************************************************************************)
(* utils.validate_config.  A configuration is what yaml.safe_load gives:   *)
(* None for an empty document, or a mapping [kind |-> "dict", sections,    *)
(* paths, logging], sections being the keys present among the required     *)
(* ones, paths and logging the values under those keys.  A section value   *)
(* is None (a key without content) or a mapping; a logging level is a      *)
(* string or an integer.                                                   *)
(***************************************************************************)
required_sections == <<"pipeline", "paths", "logging">>
required_paths == <<"input_dir", "output_dir", "logs_dir">>

\* "DEBUG", "INFO", "WARNING", "ERROR"
LEVEL_DEBUG == <<68, 69, 66, 85, 71>>
LEVEL_INFO == <<73, 78, 70, 79>>
LEVEL_WARNING == <<87, 65, 82, 78, 73, 78, 71>>
LEVEL_ERROR == <<69, 82, 82, 79, 82>>
valid_levels == <<LEVEL_DEBUG, LEVEL_INFO, LEVEL_WARNING, LEVEL_ERROR>>

\* the simple uppercase mappings of Unicode (Python 3.11): <<first, last,
\* step, delta>> maps every step-th code point c of first..last to c + delta
UpperRuns ==
    {<<97, 122, 1, -32>>, <<181, 181, 1, 743>>, <<224, 246, 1, -32>>,
     <<248, 254, 1, -32>>, <<255, 255, 1, 121>>, <<257, 303, 2, -1>>,
     <<305, 305, 1, -232>>, <<307, 311, 2, -1>>, <<314, 328, 2, -1>>,
     <<331, 375, 2, -1>>, <<378, 382, 2, -1>>, <<383, 383, 1, -300>>,
     <<384, 384, 1, 195>>, <<387, 389, 2, -1>>, <<392, 392, 1, -1>>,
     <<396, 396, 1, -1>>, <<402, 402, 1, -1>>, <<405, 405, 1, 97>>,
     <<409, 409, 1, -1>>, <<410, 410, 1, 163>>, <<414, 414, 1, 130>>,
     <<417, 421, 2, -1>>, <<424, 424, 1, -1>>, <<429, 429, 1, -1>>,
     <<432, 432, 1, -1>>, <<436, 438, 2, -1>>, <<441, 441, 1, -1>>,
     <<445, 445, 1, -1>>, <<447, 447, 1, 56>>, <<453, 453, 1, -1>>,
     <<454, 454, 1, -2>>, <<456, 456, 1, -1>>, <<457, 457, 1, -2>>,
     <<459, 459, 1, -1>>, <<460, 460, 1, -2>>, <<462, 476, 2, -1>>,
     <<477, 477, 1, -79>>, <<479, 495, 2, -1>>, <<498, 498, 1, -1>>,
     <<499, 499, 1, -2>>, <<501, 501, 1, -1>>, <<505, 543, 2, -1>>,
     <<547, 563, 2, -1>>, <<572, 572, 1, -1>>, <<575, 576, 1, 10815>>,
     <<578, 578, 1, -1>>, <<583, 591, 2, -1>>, <<592, 592, 1, 10783>>,
     <<593, 593, 1, 10780>>, <<594, 594, 1, 10782>>, <<595, 595, 1, -210>>,
     <<596, 596, 1, -206>>, <<598, 599, 1, -205>>, <<601, 601, 1, -202>>,
     <<603, 603, 1, -203>>, <<604, 604, 1, 42319>>, <<608, 608, 1, -205>>,
     <<609, 609, 1, 42315>>, <<611, 611, 1, -207>>, <<613, 613, 1, 42280>>,
     <<614, 614, 1, 42308>>, <<616, 616, 1, -209>>, <<617, 617, 1, -211>>,
     <<618, 618, 1, 42308>>, <<619, 619, 1, 10743>>, <<620, 620, 1, 42305>>,
     <<623, 623, 1, -211>>, <<625, 625, 1, 10749>>, <<626, 626, 1, -213>>,
     <<629, 629, 1, -214>>, <<637, 637, 1, 10727>>, <<640, 640, 1, -218>>,
     <<642, 642, 1, 42307>>, <<643, 643, 1, -218>>, <<647, 647, 1, 42282>>,
     <<648, 648, 1, -218>>, <<649, 649, 1, -69>>, <<650, 651, 1, -217>>,
     <<652, 652, 1, -71>>, <<658, 658, 1, -219>>, <<669, 669, 1, 42261>>,
     <<670, 670, 1, 42258>>, <<837, 837, 1, 84>>, <<881, 883, 2, -1>>,
     <<887, 887, 1, -1>>, <<891, 893, 1, 130>>, <<940, 940, 1, -38>>,
     <<941, 943, 1, -37>>, <<945, 961, 1, -32>>, <<962, 962, 1, -31>>,
     <<963, 971, 1, -32>>, <<972, 972, 1, -64>>, <<973, 974, 1, -63>>,
     <<976, 976, 1, -62>>, <<977, 977, 1, -57>>, <<981, 981, 1, -47>>,
     <<982, 982, 1, -54>>, <<983, 983, 1, -8>>, <<985, 1007, 2, -1>>,
     <<1008, 1008, 1, -86>>, <<1009, 1009, 1, -80>>, <<1010, 1010, 1, 7>>,
     <<1011, 1011, 1, -116>>, <<1013, 1013, 1, -96>>, <<1016, 1016, 1, -1>>,
     <<1019, 1019, 1, -1>>, <<1072, 1103, 1, -32>>, <<1104, 1119, 1, -80>>,
     <<1121, 1153, 2, -1>>, <<1163, 1215, 2, -1>>, <<1218, 1230, 2, -1>>,
     <<1231, 1231, 1, -15>>, <<1233, 1327, 2, -1>>, <<1377, 1414, 1, -48>>,
     <<4304, 4346, 1, 3008>>, <<4349, 4351, 1, 3008>>, <<5112, 5117, 1, -8>>,
     <<7296, 7296, 1, -6254>>, <<7297, 7297, 1, -6253>>, <<7298, 7298, 1, -6244>>,
     <<7299, 7300, 1, -6242>>, <<7301, 7301, 1, -6243>>, <<7302, 7302, 1, -6236>>,
     <<7303, 7303, 1, -6181>>, <<7304, 7304, 1, 35266>>, <<7545, 7545, 1, 35332>>,
     <<7549, 7549, 1, 3814>>, <<7566, 7566, 1, 35384>>, <<7681, 7829, 2, -1>>,
     <<7835, 7835, 1, -59>>, <<7841, 7935, 2, -1>>, <<7936, 7943, 1, 8>>,
     <<7952, 7957, 1, 8>>, <<7968, 7975, 1, 8>>, <<7984, 7991, 1, 8>>,
     <<8000, 8005, 1, 8>>, <<8017, 8023, 2, 8>>, <<8032, 8039, 1, 8>>,
     <<8048, 8049, 1, 74>>, <<8050, 8053, 1, 86>>, <<8054, 8055, 1, 100>>,
     <<8056, 8057, 1, 128>>, <<8058, 8059, 1, 112>>, <<8060, 8061, 1, 126>>,
     <<8112, 8113, 1, 8>>, <<8126, 8126, 1, -7205>>, <<8144, 8145, 1, 8>>,
     <<8160, 8161, 1, 8>>, <<8165, 8165, 1, 7>>, <<8526, 8526, 1, -28>>,
     <<8560, 8575, 1, -16>>, <<8580, 8580, 1, -1>>, <<9424, 9449, 1, -26>>,
     <<11312, 11359, 1, -48>>, <<11361, 11361, 1, -1>>, <<11365, 11365, 1, -10795>>,
     <<11366, 11366, 1, -10792>>, <<11368, 11372, 2, -1>>, <<11379, 11379, 1, -1>>,
     <<11382, 11382, 1, -1>>, <<11393, 11491, 2, -1>>, <<11500, 11502, 2, -1>>,
     <<11507, 11507, 1, -1>>, <<11520, 11557, 1, -7264>>, <<11559, 11559, 1, -7264>>,
     <<11565, 11565, 1, -7264>>, <<42561, 42605, 2, -1>>, <<42625, 42651, 2, -1>>,
     <<42787, 42799, 2, -1>>, <<42803, 42863, 2, -1>>, <<42874, 42876, 2, -1>>,
     <<42879, 42887, 2, -1>>, <<42892, 42892, 1, -1>>, <<42897, 42899, 2, -1>>,
     <<42900, 42900, 1, 48>>, <<42903, 42921, 2, -1>>, <<42933, 42947, 2, -1>>,
     <<42952, 42954, 2, -1>>, <<42961, 42961, 1, -1>>, <<42967, 42969, 2, -1>>,
     <<42998, 42998, 1, -1>>, <<43859, 43859, 1, -928>>, <<43888, 43967, 1, -38864>>,
     <<65345, 65370, 1, -32>>, <<66600, 66639, 1, -40>>, <<66776, 66811, 1, -40>>,
     <<66967, 66977, 1, -39>>, <<66979, 66993, 1, -39>>, <<66995, 67001, 1, -39>>,
     <<67003, 67004, 1, -39>>, <<68800, 68850, 1, -64>>, <<71872, 71903, 1, -32>>,
     <<93792, 93823, 1, -32>>, <<125218, 125251, 1, -34>>}

\* the code points whose uppercase is more than one character, with it
UpperSpecial ==
    {<<223, <<83, 83>>>>, <<329, <<700, 78>>>>, <<496, <<74, 780>>>>,
     <<912, <<921, 776, 769>>>>, <<944, <<933, 776, 769>>>>, <<1415, <<1333, 1362>>>>,
     <<7830, <<72, 817>>>>, <<7831, <<84, 776>>>>, <<7832, <<87, 778>>>>,
     <<7833, <<89, 778>>>>, <<7834, <<65, 702>>>>, <<8016, <<933, 787>>>>,
     <<8018, <<933, 787, 768>>>>, <<8020, <<933, 787, 769>>>>, <<8022, <<933, 787, 834>>>>,
     <<8064, <<7944, 921>>>>, <<8065, <<7945, 921>>>>, <<8066, <<7946, 921>>>>,
     <<8067, <<7947, 921>>>>, <<8068, <<7948, 921>>>>, <<8069, <<7949, 921>>>>,
     <<8070, <<7950, 921>>>>, <<8071, <<7951, 921>>>>, <<8072, <<7944, 921>>>>,
     <<8073, <<7945, 921>>>>, <<8074, <<7946, 921>>>>, <<8075, <<7947, 921>>>>,
     <<8076, <<7948, 921>>>>, <<8077, <<7949, 921>>>>, <<8078, <<7950, 921>>>>,
     <<8079, <<7951, 921>>>>, <<8080, <<7976, 921>>>>, <<8081, <<7977, 921>>>>,
     <<8082, <<7978, 921>>>>, <<8083, <<7979, 921>>>>, <<8084, <<7980, 921>>>>,
     <<8085, <<7981, 921>>>>, <<8086, <<7982, 921>>>>, <<8087, <<7983, 921>>>>,
     <<8088, <<7976, 921>>>>, <<8089, <<7977, 921>>>>, <<8090, <<7978, 921>>>>,
     <<8091, <<7979, 921>>>>, <<8092, <<7980, 921>>>>, <<8093, <<7981, 921>>>>,
     <<8094, <<7982, 921>>>>, <<8095, <<7983, 921>>>>, <<8096, <<8040, 921>>>>,
     <<8097, <<8041, 921>>>>, <<8098, <<8042, 921>>>>, <<8099, <<8043, 921>>>>,
     <<8100, <<8044, 921>>>>, <<8101, <<8045, 921>>>>, <<8102, <<8046, 921>>>>,
     <<8103, <<8047, 921>>>>, <<8104, <<8040, 921>>>>, <<8105, <<8041, 921>>>>,
     <<8106, <<8042, 921>>>>, <<8107, <<8043, 921>>>>, <<8108, <<8044, 921>>>>,
     <<8109, <<8045, 921>>>>, <<8110, <<8046, 921>>>>, <<8111, <<8047, 921>>>>,
     <<8114, <<8122, 921>>>>, <<8115, <<913, 921>>>>, <<8116, <<902, 921>>>>,
     <<8118, <<913, 834>>>>, <<8119, <<913, 834, 921>>>>, <<8124, <<913, 921>>>>,
     <<8130, <<8138, 921>>>>, <<8131, <<919, 921>>>>, <<8132, <<905, 921>>>>,
     <<8134, <<919, 834>>>>, <<8135, <<919, 834, 921>>>>, <<8140, <<919, 921>>>>,
     <<8146, <<921, 776, 768>>>>, <<8147, <<921, 776, 769>>>>, <<8150, <<921, 834>>>>,
     <<8151, <<921, 776, 834>>>>, <<8162, <<933, 776, 768>>>>, <<8163, <<933, 776, 769>>>>,
     <<8164, <<929, 787>>>>, <<8166, <<933, 834>>>>, <<8167, <<933, 776, 834>>>>,
     <<8178, <<8186, 921>>>>, <<8179, <<937, 921>>>>, <<8180, <<911, 921>>>>,
     <<8182, <<937, 834>>>>, <<8183, <<937, 834, 921>>>>, <<8188, <<937, 921>>>>,
     <<64256, <<70, 70>>>>, <<64257, <<70, 73>>>>, <<64258, <<70, 76>>>>,
     <<64259, <<70, 70, 73>>>>, <<64260, <<70, 70, 76>>>>, <<64261, <<83, 84>>>>,
     <<64262, <<83, 84>>>>, <<64275, <<1348, 1350>>>>, <<64276, <<1348, 1333>>>>,
     <<64277, <<1348, 1339>>>>, <<64278, <<1358, 1350>>>>, <<64279, <<1348, 1341>>>>}

\* str.upper of one character
char_upper(c) ==
    IF \E r \in UpperRuns : r[1] <= c /\ c <= r[2] /\ (c - r[1]) % r[3] = 0
    THEN LET r == CHOOSE q \in UpperRuns :
                      q[1] <= c /\ c <= q[2] /\ (c - q[1]) % q[3] = 0
         IN <<c + r[4]>>
    ELSE IF \E m \in UpperSpecial : m[1] = c
    THEN (CHOOSE m \in UpperSpecial : m[1] = c)[2]
    ELSE <<c>>

RECURSIVE str_upper(_)
\* str.upper: every character replaced by its uppercase
str_upper(s) ==
    IF s = <<>> THEN <<>> ELSE char_upper(Head(s)) \o str_upper(Tail(s))

Returned(cfg) == [done |-> TRUE, raised |-> "none", msg |-> "", config |-> cfg]
Raises(exc, msg, cfg) ==
    [done |-> TRUE, raised |-> exc, msg |-> msg, config |-> cfg]

\* lines 63-66: the logging level, when there is one
validate_level(cfg) ==
    IF IsNone(cfg.logging)
    THEN Raises("TypeError", "argument of type 'NoneType' is not iterable",
                cfg)                                        \* line 63
    ELSE IF ~cfg.logging.has_level THEN Returned(cfg)
    ELSE IF cfg.logging.level.kind # "str"
    THEN Raises("AttributeError", "object has no attribute 'upper'",
                cfg)                                        \* line 64
    ELSE IF \E k \in 1..Len(valid_levels) :
                str_upper(cfg.logging.level.value) = valid_levels[k]
    THEN Returned(cfg)
    ELSE Raises("ValueError", "Invalid logging level", cfg) \* line 66

\* lines 59-62: the required path keys
validate_paths(cfg) ==
    IF IsNone(cfg.paths)
    THEN Raises("TypeError", "argument of type 'NoneType' is not iterable",
                cfg)                                        \* line 61
    ELSE IF \E k \in 1..Len(required_paths) :
                required_paths[k] \notin cfg.paths.keys
    THEN Raises("ValueError", "Missing required path configuration", cfg)
    ELSE validate_level(cfg)

\* utils.validate_config
validate_config(cfg) ==
    IF IsNone(cfg)
    THEN Raises("TypeError", "argument of type 'NoneType' is not iterable",
                cfg)                                        \* line 57
    ELSE IF \E k \in 1..Len(required_sections) :
                required_sections[k] \notin cfg.sections
    THEN Raises("ValueError", "Missing required configuration section", cfg)
    ELSE validate_paths(cfg)

\* validate_config is called on a configuration, as test_config_validation
\* does
validate_step ==
    /\ pc = "validate"
    /\ LET out == validate_config(v_config)
       IN /\ validation' = [done |-> TRUE, call |-> "validate_config",
                            raised |-> out.raised, msg |-> out.msg]
          /\ v_config' = out.config
    /\ pc' = "validated"
    /\ UNCHANGED <<v_input, existing_dirs, log, index_events>>
    /\ UNCHANGED <<batch_vars, unit_vars, rerun_vars, pipeline_vars>>

\* the keys line 60 goes through
environment_keys == <<"input_dir", "output_dir">>

RECURSIVE ensure_directories(_, _, _, _)
\* run_ibis_pipeline.py lines 60-64 from the k-th key on: dirs are the
\* paths that exist and entries the warnings logged so far.  The path
\* configured under a key is named by the key.
ensure_directories(cfg, k, dirs, entries) ==
    IF k > Len(environment_keys)
    THEN [raised |-> "none", msg |-> "", dirs |-> dirs, log |-> entries]
    ELSE LET key == environment_keys[k]
         IN IF key \notin cfg.paths.keys                    \* line 61
            THEN [raised |-> "KeyError", msg |-> key, dirs |-> dirs,
                  log |-> entries]
            ELSE IF key \in dirs                            \* line 62
            THEN ensure_directories(cfg, k + 1, dirs, entries)
            ELSE ensure_directories(
                     cfg, k + 1, dirs \cup {key},           \* line 64
                     Append(entries, LogEntry("warning", "Creating")))

\* IBISPipeline.validate_environment, self.config being v_config
validate_environment ==
    /\ pc = "validate"
    /\ LET env ==
               IF IsNone(v_config)                          \* line 61
               THEN [raised |-> "TypeError",
                     msg |-> "'NoneType' object is not subscriptable",
                     dirs |-> existing_dirs, log |-> <<>>]
               ELSE IF "paths" \notin v_config.sections
               THEN [raised |-> "KeyError", msg |-> "paths",
                     dirs |-> existing_dirs, log |-> <<>>]
               ELSE IF IsNone(v_config.paths)
               THEN [raised |-> "TypeError",
                     msg |-> "'NoneType' object is not subscriptable",
                     dirs |-> existing_dirs, log |-> <<>>]
               ELSE ensure_directories(v_config, 1, existing_dirs, <<>>)
           out == validate_config(v_config)                 \* line 65
       IN /\ existing_dirs' = env.dirs
          /\ log' = log \o env.log
          /\ IF env.raised # "none"
             THEN /\ validation' = [done |-> TRUE,
                                    call |-> "validate_environment",
                                    raised |-> env.raised, msg |-> env.msg]
                  /\ v_config' = v_config
             ELSE /\ validation' = [done |-> TRUE,
                                    call |-> "validate_environment",
                                    raised |-> out.raised, msg |-> out.msg]
                  /\ v_config' = out.config
    /\ pc' = "validated"
    /\ UNCHANGED <<v_input, index_events>>
    /\ UNCHANGED <<batch_vars, unit_vars, rerun_vars, pipeline_vars>>

(***************************************************************************)
(* IBISPipeline.run_pipeline (run_ibis_pipeline.py).  steps is the         *)
(* argument, <<>> standing for None and for the empty list, which line 81  *)
(* treats alike.  The step buffer_zone runs BufferZoneAnalyzer.run, the    *)
(* actions run_begin to run_finish above.  The other three components are  *)
(* taken over absent input directories, where their processing emits no    *)
(* entry of its own, and run_outcome says how run() of each ends: it comes *)
(* to its end ("returns"), an Exception leaves it ("raises"), or a         *)
(* BaseException outside Exception does, such as KeyboardInterrupt         *)
(* ("interrupted").  None of the four run() methods has a return           *)
(* statement, so a run() that comes to its end returns None.               *)
(***************************************************************************)
\* the keys of pipeline_steps, lines 75-80
pipeline_steps == {StepNames[k] : k \in 1..Len(StepNames)}

\* the first entry run() logs
start_message ==
    [roi_extraction |-> "Starting ROI extraction...",
     variable_extraction |-> "Starting variable extraction...",
     consolidation |-> "Starting data consolidation..."]

\* the entry the handler of run() logs before it raises again
failed_message ==
    [roi_extraction |-> "ROI extraction failed",
     variable_extraction |-> "Variable extraction failed",
     consolidation |-> "Data consolidation failed"]

\* run() of ROIExtractor, VariableExtractor or DataConsolidator: what it
\* logs, whether an exception leaves it, and the value returned
component_run(step_name) ==
    LET begin == <<LogEntry("info", start_message[step_name])>>
                 \o log_memory_usage("Initial")
    IN IF run_outcome[step_name] = "raises"
       THEN [raised |-> TRUE, exception |-> "Exception", value |-> None,
             log |-> begin
                     \o <<LogEntry("error", failed_message[step_name])>>]
       ELSE IF run_outcome[step_name] = "interrupted"
       THEN [raised |-> TRUE, exception |-> "BaseException", value |-> None,
             log |-> begin]
       ELSE [raised |-> FALSE, exception |-> "none", value |-> None,
             log |-> begin \o log_memory_usage("Final")]

\* lines 74-86: the steps to run, or the refusal of unknown names
pipeline_begin ==
    /\ pc = "pipeline"
    /\ LET requested == IF steps = <<>> THEN StepNames ELSE steps
           invalid == SelectSeq(requested, LAMBDA s : s \notin pipeline_steps)
       IN /\ steps' = requested
          /\ IF invalid # <<>>
             THEN /\ log' = log \o <<LogEntry("info", "Starting IBIS"),
                                     LogEntry("error", "Invalid steps")>>
                  /\ result' = PyBool(FALSE)
                  /\ pc' = "finished"
             ELSE /\ log' = log \o <<LogEntry("info", "Starting IBIS")>>
                  /\ result' = result
                  /\ pc' = "steps"
    /\ success_count' = 0
    /\ step_i' = 1
    /\ UNCHANGED <<run_outcome, started, index_events>>
    /\ UNCHANGED <<batch_vars, unit_vars, rerun_vars, validate_vars>>

\* lines 89-95 on how run() ended: what is logged, whether the step counts,
\* and whether the loop goes on
step_outcome(raised, exception, value) ==
    IF raised /\ exception # "Exception"
    THEN [log |-> <<>>, counted |-> 0, pc |-> "propagated"]
    ELSE IF raised                                          \* lines 93-95
    THEN [log |-> <<LogEntry("error", "Step raised"),
                    LogEntry("error", "traceback")>>,
          counted |-> 0, pc |-> "steps"]
    ELSE IF truthy(value)                                   \* line 90
    THEN [log |-> <<>>, counted |-> 1, pc |-> "steps"]
    ELSE [log |-> <<LogEntry("error", "Step failed")>>,      \* line 92
          counted |-> 0, pc |-> "steps"]

\* mutant of pipeline_step: an exception of a step ends run_pipeline
pipeline_step_aborts ==
    /\ pc = "steps"
    /\ step_i <= Len(steps)
    /\ steps[step_i] \in OutcomeSteps
    /\ LET step_name == steps[step_i]
           out == component_run(step_name)
       IN /\ started' = Append(started, step_name)
          /\ IF out.raised
             THEN /\ log' = log \o out.log
                              \o <<LogEntry("error", "Step raised")>>
                  /\ success_count' = success_count
                  /\ result' = PyBool(FALSE)
                  /\ pc' = "finished"
             ELSE /\ log' = log \o out.log
                              \o <<LogEntry("error", "Step failed")>>
                  /\ success_count' = success_count
                  /\ result' = result
                  /\ pc' = pc
    /\ step_i' = step_i + 1
    /\ UNCHANGED <<steps, run_outcome, index_events>>
    /\ UNCHANGED <<batch_vars, unit_vars, rerun_vars, validate_vars>>

\* lines 87-95: one step other than buffer_zone, run() of its component
\* included
pipeline_step ==
    /\ pc = "steps"
    /\ step_i <= Len(steps)
    /\ steps[step_i] \in OutcomeSteps
    /\ LET step_name == steps[step_i]
           out == component_run(step_name)
           then == step_outcome(out.raised, out.exception, out.value)
       IN /\ started' = Append(started, step_name)
          /\ log' = log \o out.log \o then.log
          /\ success_count' = success_count + then.counted
          /\ pc' = then.pc
    /\ step_i' = step_i + 1
    /\ UNCHANGED <<steps, run_outcome, result, index_events>>
    /\ UNCHANGED <<batch_vars, unit_vars, rerun_vars, validate_vars>>

\* lines 87-89 for the step buffer_zone: BufferZoneAnalyzer.run is entered
pipeline_step_call ==
    /\ pc = "steps"
    /\ step_i <= Len(steps)
    /\ steps[step_i] = "buffer_zone"
    /\ started' = Append(started, steps[step_i])
    /\ pc' = "run"
    /\ UNCHANGED <<steps, run_outcome, step_i, success_count, result, log,
                   index_events>>
    /\ UNCHANGED <<batch_vars, unit_vars, rerun_vars, validate_vars>>

\* lines 89-95 for the step buffer_zone: BufferZoneAnalyzer.run has come to
\* its end, returning None, or has raised
pipeline_step_return ==
    /\ pc \in {"done", "raised"}
    /\ LET then == step_outcome(pc = "raised", "Exception", None)
       IN /\ log' = log \o then.log
          /\ success_count' = success_count + then.counted
          /\ pc' = then.pc
    /\ step_i' = step_i + 1
    /\ UNCHANGED <<steps, run_outcome, started, result, index_events>>
    /\ UNCHANGED <<batch_vars, unit_vars, rerun_vars, validate_vars>>

\* lines 96-97: the summary and the returned value
pipeline_end ==
    /\ pc = "steps"
    /\ step_i > Len(steps)
    /\ log' = log \o <<LogEntry("info", "Completed")>>
    /\ result' = PyBool(success_count = Len(steps))
    /\ pc' = "finished"
    /\ UNCHANGED <<steps, run_outcome, step_i, success_count, started,
                   index_events>>
    /\ UNCHANGED <<batch_vars, unit_vars, rerun_vars, validate_vars>>

(***************************************************************************)
(* The inputs drawn.                                                       *)
(***************************************************************************)
Identity == <<<<1, 0, 0, 0>>, <<0, 1, 0, 0>>, <<0, 0, 1, 0>>>>
\* 2 mm voxels along the first axis
Anisotropic == <<<<2, 0, 0, 0>>, <<0, 1, 0, 0>>, <<0, 0, 1, 0>>>>
\* first and second axis exchanged, origin at x = 1
Swapped == <<<<0, 1, 0, 1>>, <<1, 0, 0, 0>>, <<0, 0, 1, 0>>>>
\* 3 mm isotropic voxels
Coarse == <<<<3, 0, 0, 0>>, <<0, 3, 0, 0>>, <<0, 0, 3, 0>>>>
Affines == {Identity, Anisotropic, Swapped, Coarse}

Shape == <<2, 2, 1>>

RampData == [v \in VoxelsOf(Shape) |-> COrder(Shape)[v] + 1]
\* every voxel at intensity 3
ConstantData == [v \in VoxelsOf(Shape) |-> 3]
\* every voxel at intensity 16777214 = 2^24 - 2, a float32 number
NearLimitData == [v \in VoxelsOf(Shape) |-> 16777214]

Image(affine, data) ==
    [kind |-> "img", shape |-> Shape, affine |-> affine, data |-> data]

Images ==
    {Image(a, d) : a \in Affines, d \in {RampData, ConstantData}}
        \cup {Image(Identity, NearLimitData)}
\* the masks drawn: every voxel, no voxel, voxel (0, 0, 0) alone, and every
\* voxel but (0, 0, 0)
MaskData ==
    {d \in [VoxelsOf(Shape) -> {0, 1}] :
        \A v, w \in VoxelsOf(Shape) \ {<<0, 0, 0>>} : d[v] = d[w]}
Masks == {Image(a, d) : a \in Affines, d \in MaskData}

SeedPoints == {<<0, 0, 0>>, <<1, 0, 0>>, <<9, 0, 0>>}

\* a coordinate table with a far seed between two equal rows
SeedsWithGapAndDuplicate == <<<<0, 0, 0>>, <<9, 0, 0>>, <<0, 0, 0>>>>

RECURSIVE SeqsUpTo(_, _)
\* the sequences over S of length at most n
SeqsUpTo(S, n) ==
    IF n = 0 THEN {<<>>}
    ELSE LET shorter == SeqsUpTo(S, n - 1)
         IN shorter \cup {Append(s, x) : s \in shorter, x \in S}

CoordFile(name, isfile, readable, columns, seeds) ==
    [kind |-> "file", name |-> name, isfile |-> isfile,
     readable |-> readable, columns |-> columns, seeds |-> seeds]

CoordCatalogue ==
    {CoordFile(NAME_0002_B, TRUE, "ok", {"X", "Y", "Z"},
               <<<<0, 0, 0>>, <<9, 0, 0>>, <<1, 0, 0>>>>),
     CoordFile(NAME_0001_A, TRUE, "ok", {"X", "Y", "Z", "label"},
               <<<<2, 1, 0>>>>),
     CoordFile(NAME_A0003, TRUE, "ok", {"X", "Y"}, <<>>),
     CoordFile(NAME_Z0004, TRUE, "parse_error", {}, <<>>),
     CoordFile(NAME_0000_H, TRUE, "unreadable", {}, <<>>),
     CoordFile(NAME_SUB_E, TRUE, "ok", {"X", "Y", "Z"}, <<<<0, 0, 0>>>>),
     CoordFile(NAME_NOTES, TRUE, "ok", {"X", "Y", "Z"}, <<<<0, 0, 0>>>>),
     CoordFile(NAME_MIXED_DIGITS, TRUE, "ok", {"X", "Y", "Z"}, <<<<0, 0, 0>>>>),
     CoordFile(NAME_0008_DIR, FALSE, "unreadable", {}, <<>>)}

ImageFile(name, isfile, loadable, img) ==
    [kind |-> "file", name |-> name, isfile |-> isfile,
     loadable |-> loadable, img |-> img]

ImageCatalogue ==
    {ImageFile(NAME_IMG, TRUE, TRUE, Image(Anisotropic, RampData)),
     ImageFile(NAME_BAD, TRUE, FALSE, None),
     ImageFile(NAME_README, TRUE, TRUE, Image(Identity, RampData))}

Directories(catalogue) ==
    {[exists |-> FALSE, entries |-> {}]}
    \cup {[exists |-> TRUE, entries |-> S] :
             S \in {T \in SUBSET catalogue : Cardinality(T) <= MaxFiles}}

\* a document whose buffer_zone has the given radius_options
RadiusDocument(options) ==
    PyDict(<<<<KEY_BUFFER_ZONE, PyDict(<<<<KEY_RADIUS_OPTIONS, options>>>>)>>>>)

\* what yaml.safe_load gives for buffer_zone_config.yaml: None for an empty
\* file, a list, or a mapping whose key buffer_zone is empty or a mapping
\* whose key radius_options is absent, empty, a number, the text "12", the
\* mapping {2: "a", 1: "b"} or a list of radii
BzDocuments ==
    {None, PyList(<<>>), PyDict(<<<<KEY_BUFFER_ZONE, None>>>>),
     PyDict(<<<<KEY_BUFFER_ZONE, EmptyDict>>>>)}
    \cup {RadiusDocument(options) :
             options \in {None, PyInt(DefaultRadius), PyStr(<<49, 50>>),
                          PyDict(<<<<PyInt(2), PyStr(<<97>>)>>,
                                   <<PyInt(1), PyStr(<<98>>)>>>>)}}
    \cup {RadiusDocument(PyList([k \in 1..Len(rs) |-> PyInt(rs[k])])) :
             rs \in SeqsUpTo(0..MaxRadius, 2)}

BzConfigFile(exists, loads, document) ==
    [exists |-> exists, loads |-> loads, document |-> document]

\* the states of config/buffer_zone_config.yaml
BzConfigFiles ==
    {BzConfigFile(FALSE, FALSE, None), BzConfigFile(TRUE, FALSE, None)}
    \cup {BzConfigFile(TRUE, TRUE, d) : d \in BzDocuments}

NoReturn ==
    [raised |-> FALSE, has_X |-> FALSE, X |-> <<>>, A |-> <<>>,
     events |-> <<>>]

BatchIdle ==
    /\ coordinates_dir = [exists |-> FALSE, entries |-> {}]
    /\ images_dir = [exists |-> FALSE, entries |-> {}]
    /\ bz_config = EmptyDict
    /\ psutil_available = TRUE
    /\ allow_overlap = FALSE

BatchLocalsInit ==
    /\ coord_files = <<>>
    /\ default_image = None
    /\ radius_options = PyList(<<>>)
    /\ file_i = 1
    /\ radius_i = 0
    /\ subject_id = None
    /\ all_results = <<>>
    /\ output_csv = NoFile
    /\ writes = 0
    /\ calls = <<>>
    /\ index_events = <<>>

UnitIdle ==
    /\ u_seeds = <<>>
    /\ u_niimg = None
    /\ u_mask_img = None
    /\ u_allow_overlap = FALSE
    /\ u_radius = 0
    /\ u_calls = 0
    /\ ret = NoReturn
    /\ records = <<>>
    /\ u_history = <<>>

\* a BufferZoneAnalyzer was constructed; run has not been called
Init ==
    /\ coordinates_dir \in Directories(CoordCatalogue)
    /\ images_dir \in Directories(ImageCatalogue)
    /\ \E file \in BzConfigFiles :
          LET loaded == _load_bz_config(file)               \* line 27
          IN bz_config = loaded.value /\ log = loaded.log
    /\ allow_overlap \in BOOLEAN
    /\ psutil_available \in BOOLEAN
    /\ listdir_reversed \in BOOLEAN
    /\ prev_run = None
    /\ pc = "run"
    /\ BatchLocalsInit
    /\ UnitIdle
    /\ ValidateIdle
    /\ PipelineIdle

Next ==
    \/ run_begin
    \/ loop_subject
    \/ loop_extract
    \/ loop_next_file
    \/ write_table
    \/ run_finish

Spec == Init /\ [][Next]_vars

(***************************************************************************)
(* SpecRerun: the batch run, made twice on the same inputs.                *)
(***************************************************************************)
NextRerun ==
    \/ run_begin
    \/ loop_subject
    \/ loop_extract
    \/ loop_next_file
    \/ write_table
    \/ run_finish
    \/ run_again

\* the two runs are made with allow_overlap at its default, line 35
InitRerun == Init /\ ~allow_overlap

SpecRerun == InitRerun /\ [][NextRerun]_vars

(***************************************************************************)
(* SpecAffinity: direct calls of _apply_mask_and_get_affinity.             *)
(***************************************************************************)
\* the mask is on the grid of the image it is applied to
SameGrid(niimg, mask_img) ==
    IF IsNone(niimg) THEN TRUE
    ELSE IF IsNone(mask_img) THEN TRUE
    ELSE niimg.shape = mask_img.shape /\ niimg.affine = mask_img.affine

InitAffinity ==
    /\ u_seeds \in SeqsUpTo(SeedPoints, MaxSeeds) \cup {SeedsWithGapAndDuplicate}
    /\ u_niimg \in {None} \cup Images
    /\ u_mask_img \in {None} \cup Masks
    /\ SameGrid(u_niimg, u_mask_img)
    /\ u_allow_overlap \in BOOLEAN
    /\ u_radius = 0
    /\ u_calls = 0
    /\ ret = NoReturn
    /\ records = <<>>
    /\ u_history = <<>>
    /\ pc = "call"
    /\ BatchIdle
    /\ BatchLocalsInit
    /\ log = <<>>
    /\ listdir_reversed = FALSE
    /\ prev_run = None
    /\ ValidateIdle
    /\ PipelineIdle

\* one call, lines 48-68
apply_step ==
    /\ pc = "call"
    /\ u_calls < MaxCalls
    /\ \E radius \in 0..MaxRadius :
          LET out == _apply_mask_and_get_affinity(
                         u_seeds, u_niimg, radius, u_allow_overlap, u_mask_img)
          IN /\ ret' = out
             /\ u_radius' = radius
             /\ index_events' = index_events \o out.events
             /\ pc' = IF out.raised THEN "call" ELSE "results"
    /\ u_calls' = u_calls + 1
    /\ records' = <<>>
    /\ UNCHANGED <<u_seeds, u_niimg, u_mask_img, u_allow_overlap, log,
                   u_history>>
    /\ UNCHANGED batch_vars
    /\ UNCHANGED ext_vars

\* the last two entries of a sequence
LastTwo(s) == IF Len(s) <= 2 THEN s ELSE SubSeq(s, Len(s) - 1, Len(s))

\* the record loop, lines 80-96, on what the call returned; `sweep` says
\* whether the finished call is entered in u_history
record_loop(sweep) ==
    /\ pc = "results"
    /\ LET res == build_results(u_seeds, u_radius, ret)
       IN /\ records' = res.df
          /\ log' = log \o res.log
          /\ u_history' =
                 IF sweep
                 THEN LastTwo(Append(u_history, [radius |-> u_radius,
                                                 records |-> res.df]))
                 ELSE u_history
    /\ pc' = "call"
    /\ UNCHANGED <<u_seeds, u_niimg, u_mask_img, u_allow_overlap, u_radius,
                   u_calls, ret, index_events>>
    /\ UNCHANGED batch_vars
    /\ UNCHANGED ext_vars

results_step == record_loop(FALSE)

NextAffinity == apply_step \/ results_step

SpecAffinity == InitAffinity /\ [][NextAffinity]_vars

(***************************************************************************)
(* SpecSweep: the direct calls of SpecAffinity as a sweep over radii, the  *)
(* last two finished calls being kept for comparison.                      *)
(***************************************************************************)
\* the sweep is made with allow_overlap at its default, line 35
InitSweep == InitAffinity /\ ~u_allow_overlap

sweep_step == record_loop(TRUE)

NextSweep == apply_step \/ sweep_step

SpecSweep == InitSweep /\ [][NextSweep]_vars

(***************************************************************************)
(* SpecValidate: validate_config on drawn configurations.                  *)
(***************************************************************************)
\* "DEBUG", "INFO", "ERROR", "info", "Warning", "WARN", "trace", "\u0131nfo" (with
\* LATIN SMALL LETTER DOTLESS I, whose uppercase is "I"), and the integer 10
Levels ==
    {PyStr(LEVEL_DEBUG), PyStr(LEVEL_INFO), PyStr(LEVEL_ERROR),
     PyStr(<<105, 110, 102, 111>>),
     PyStr(<<87, 97, 114, 110, 105, 110, 103>>), PyStr(<<87, 65, 82, 78>>),
     PyStr(<<116, 114, 97, 99, 101>>), PyStr(<<305, 110, 102, 111>>),
     PyInt(10)}

PathsValues ==
    {None} \cup {[kind |-> "dict", keys |-> K] :
                    K \in SUBSET {"input_dir", "output_dir", "logs_dir"}}

LoggingValues ==
    {None, [kind |-> "dict", has_level |-> FALSE, level |-> None]}
    \cup {[kind |-> "dict", has_level |-> TRUE, level |-> lv] : lv \in Levels}

Configs ==
    {None} \cup {[kind |-> "dict", sections |-> S, paths |-> P, logging |-> L] :
                    S \in SUBSET {"pipeline", "paths", "logging"},
                    P \in PathsValues, L \in LoggingValues}

InitValidate ==
    /\ v_input \in Configs
    /\ v_config = v_input
    /\ validation = NotValidated
    /\ existing_dirs \in SUBSET {environment_keys[k] : k \in 1..2}
    /\ pc = "validate"
    /\ BatchIdle
    /\ BatchLocalsInit
    /\ log = <<>>
    /\ UnitIdle
    /\ listdir_reversed = FALSE
    /\ prev_run = None
    /\ PipelineIdle

NextValidate == validate_step \/ validate_environment

SpecValidate == InitValidate /\ [][NextValidate]_vars

(***************************************************************************)
(* SpecPipeline: one call of run_pipeline on drawn steps.                  *)
(***************************************************************************)
MaxSteps == 2     \* step names passed to run_pipeline

RequestedNames == pipeline_steps \cup {"unknown_step"}

\* what the step buffer_zone finds: no input directory; a coordinate file
\* and an image under a configuration without radii; the same files under
\* an empty buffer_zone_config.yaml
PipelineInputs ==
    {[coordinates_dir |-> [exists |-> FALSE, entries |-> {}],
      images_dir |-> [exists |-> FALSE, entries |-> {}],
      bz_config |-> EmptyDict],
     [coordinates_dir |->
          [exists |-> TRUE,
           entries |-> {CoordFile(NAME_0001_A, TRUE, "ok",
                                  {"X", "Y", "Z", "label"}, <<<<2, 1, 0>>>>)}],
      images_dir |->
          [exists |-> TRUE,
           entries |-> {ImageFile(NAME_IMG, TRUE, TRUE,
                                  Image(Anisotropic, RampData))}],
      bz_config |-> EmptyDict],
     [coordinates_dir |->
          [exists |-> TRUE,
           entries |-> {CoordFile(NAME_0001_A, TRUE, "ok",
                                  {"X", "Y", "Z", "label"}, <<<<2, 1, 0>>>>)}],
      images_dir |->
          [exists |-> TRUE,
           entries |-> {ImageFile(NAME_IMG, TRUE, TRUE,
                                  Image(Anisotropic, RampData))}],
      bz_config |-> None]}

InitPipeline ==
    /\ steps \in SeqsUpTo(RequestedNames, MaxSteps)
    /\ run_outcome \in [OutcomeSteps -> {"returns", "raises", "interrupted"}]
    /\ step_i = 1
    /\ success_count = 0
    /\ started = <<>>
    /\ result = None
    /\ pc = "pipeline"
    /\ \E inputs \in PipelineInputs :
          /\ coordinates_dir = inputs.coordinates_dir
          /\ images_dir = inputs.images_dir
          /\ bz_config = inputs.bz_config
    /\ allow_overlap = FALSE
    /\ psutil_available \in BOOLEAN
    /\ BatchLocalsInit
    /\ log = <<>>
    /\ UnitIdle
    /\ listdir_reversed = FALSE
    /\ prev_run = None
    /\ ValidateIdle

NextPipeline ==
    \/ pipeline_begin
    \/ pipeline_step
    \/ pipeline_step_call
    \/ run_begin
    \/ loop_subject
    \/ loop_extract
    \/ loop_next_file
    \/ write_table
    \/ run_finish
    \/ pipeline_step_return
    \/ pipeline_end

SpecPipeline == InitPipeline /\ [][NextPipeline]_vars

(***************************************************************************)
(* Reference definitions of the properties: computed from the inputs,      *)
(* without the operators above.                                            *)
\* the radii line 113 iterates over
RadiusList ==
    CASE radius_options.kind = "list" -> radius_options.items
      [] radius_options.kind = "str" ->
             [k \in 1..Len(radius_options.value) |->
                 [kind |-> "str", value |-> <<radius_options.value[k]>>]]
      [] radius_options.kind = "dict" ->
             [k \in 1..Len(radius_options.pairs) |-> radius_options.pairs[k][1]]
      [] OTHER -> <<>>

\* the keys of a mapping that are the text `key`
KeysNamed(d, key) == {k \in 1..Len(d.pairs) : d.pairs[k][1] = key}

\* the value a mapping holds for a key it has
ValueOf(d, key) == d.pairs[CHOOSE k \in KeysNamed(d, key) : TRUE][2]

(***************************************************************************)
\* the world coordinates (mm) of voxel v under the affine a
WorldOf(v, a) ==
    <<a[1][1] * v[1] + a[1][2] * v[2] + a[1][3] * v[3] + a[1][4],
      a[2][1] * v[1] + a[2][2] * v[2] + a[2][3] * v[3] + a[2][4],
      a[3][1] * v[1] + a[3][2] * v[2] + a[3][3] * v[3] + a[3][4]>>

\* the voxels of `domain` at most `radius` mm from `seed`, by brute force
BruteBall(seed, domain, a, radius) ==
    {v \in domain : Dist2(WorldOf(v, a), seed) <= radius * radius}

\* the search domain of a batch run, which supplies no mask: every voxel of
\* the image
BatchDomain(img) == VoxelsOf(img.shape)

\* a coordinate file that cannot be read as a table with X, Y and Z
FailingFile(f) ==
    f.readable # "ok" \/ ~({"X", "Y", "Z"} \subseteq f.columns)

\* the listed coordinate files that carry a subject identifier
SubjectFiles == SelectSeq(coord_files, LAMBDA f : ~IsNone(extract_subject_id(f.name)))

\* the k-th configured radius is a number
IsNumber(k) == RadiusList[k].kind = "int"

\* the radius (mm) the k-th configured radius, a number, stands for
EffectiveRadius(k) ==
    IF RadiusList[k].value = 0 THEN DefaultRadius ELSE RadiusList[k].value

\* whether seed number i (1-based) of file f matches a voxel at radius k
SeedMatches(f, k, i) ==
    /\ ~FailingFile(f)
    /\ default_image.loadable
    /\ IsNumber(k)
    /\ BruteBall(f.seeds[i], BatchDomain(default_image.img),
                 default_image.img.affine, EffectiveRadius(k)) # {}

\* the batch run has gone through its loop and returned to run
LoopDone == pc = "done" /\ ~IsNone(default_image)

RowKey(row) == <<row.subject_id.value, row.radius_mm, row.seed_id>>

(***************************************************************************)
(* C1.  For a run over readable coordinate files with X, Y, Z columns and  *)
(* a loadable image, the output table holds exactly one row for every      *)
(* (subject file, radius, seed) in which a domain voxel lies within the    *)
(* radius of the seed: as many rows carry a (subject, radius, seed) key as *)
(* there are matching combinations with that key.                          *)
(***************************************************************************)
C1_OneRowPerMatch ==
    (/\ LoopDone
     /\ default_image.loadable
     /\ \A n \in 1..Len(SubjectFiles) : ~FailingFile(SubjectFiles[n]))
    => \A n \in 1..Len(SubjectFiles) :
         \A k \in {j \in 1..Len(RadiusList) : IsNumber(j)} :
           \A i \in 1..Len(SubjectFiles[n].seeds) :
             LET f == SubjectFiles[n]
                 key == <<extract_subject_id(f.name).value, EffectiveRadius(k),
                          i - 1>>
                 expected == {m \in 1..Len(RadiusList) :
                                 /\ IsNumber(m)
                                 /\ EffectiveRadius(m) = EffectiveRadius(k)
                                 /\ SeedMatches(f, m, i)}
                 found == {r \in 1..Len(output_csv.rows) :
                              RowKey(output_csv.rows[r]) = key}
             IN Cardinality(found) = Cardinality(expected)

(***************************************************************************)
(* C4.  Whenever extract_buffer_zone_data returns an empty table because   *)
(* its coordinate file failed (missing X, Y or Z column, parse error,      *)
(* unreadable path), the call has emitted at least one log entry.          *)
(***************************************************************************)
C4_FailureLogged ==
    \A c \in 1..Len(calls) :
        (FailingFile(calls[c].file) /\ calls[c].rows = 0)
        => calls[c].logged >= 1

(***************************************************************************)
(* Reference definitions for direct calls.                                 *)
(***************************************************************************)
\* the affine the coordinates of a direct call are taken in
UnitAffine == IF IsNone(u_niimg) THEN u_mask_img.affine ELSE u_niimg.affine

\* the mask-active voxels of a direct call
UnitDomain == {v \in VoxelsOf(u_mask_img.shape) : u_mask_img.data[v] # 0}

\* the active voxels within u_radius mm of seed number i (1-based)
UnitBall(i) == BruteBall(u_seeds[i], UnitDomain, UnitAffine, u_radius)

\* the same ball measured in raw voxel indices
RawBall(i) ==
    {v \in UnitDomain : Dist2(v, u_seeds[i]) <= u_radius * u_radius}

\* v comes before w in row-major order
Precedes(v, w) ==
    \/ v[1] < w[1]
    \/ v[1] = w[1] /\ v[2] < w[2]
    \/ v[1] = w[1] /\ v[2] = w[2] /\ v[3] < w[3]

\* the 0-based column of active voxel v in the affinity matrix
ColumnOf(v) == Cardinality({w \in UnitDomain : Precedes(w, v)})

\* a direct call has returned and its records were built
RecordsBuilt == pc = "call" /\ u_calls > 0 /\ ~ret.raised

RecordsOfSeed(i) == {k \in 1..Len(records) : records[k].seed_id = i - 1}

Count(events, e) == Cardinality({k \in 1..Len(events) : events[k] = e})

(***************************************************************************)
(* C2.  Every record built has voxel_count >= 1: a seed without matched    *)
(* voxel yields no record, and the call neither raises nor logs an error   *)
(* for it.                                                                 *)
(***************************************************************************)
C2_NoZeroCountRecord ==
    RecordsBuilt =>
        /\ \A k \in 1..Len(records) : records[k].voxel_count >= 1
        /\ \A i \in 1..Len(u_seeds) :
               UnitBall(i) = {} => RecordsOfSeed(i) = {}
        /\ log = <<>>

\* a call in which one seed matched and another did not
C2_Witness ==
    /\ RecordsBuilt
    /\ records # <<>>
    /\ \E i \in 1..Len(u_seeds) : UnitBall(i) = {}

(***************************************************************************)
(* C3.  A failing coordinate file never aborts the loop: a run raises only *)
(* for a buffer-zone configuration that yields no radii to run over, never *)
(* for a file; every (coordinate file, radius) pair is passed to           *)
(* extraction in order, and the frames collected are those of a run over   *)
(* the listing without the failing files.                                  *)
(***************************************************************************)
\* the loaded configuration is a mapping whose buffer_zone, when present, is
\* a mapping whose radius_options, when present, is a list, a text or a
\* mapping
RadiiConfigured ==
    /\ bz_config.kind = "dict"
    /\ KeysNamed(bz_config, KEY_BUFFER_ZONE) # {} =>
           LET bz == ValueOf(bz_config, KEY_BUFFER_ZONE)
           IN /\ bz.kind = "dict"
              /\ KeysNamed(bz, KEY_RADIUS_OPTIONS) # {} =>
                     ValueOf(bz, KEY_RADIUS_OPTIONS).kind
                         \in {"list", "str", "dict"}

ExpectedCalls ==
    [n \in 1..(Len(SubjectFiles) * Len(RadiusList)) |->
        <<SubjectFiles[((n - 1) \div Len(RadiusList)) + 1].name,
          RadiusList[((n - 1) % Len(RadiusList)) + 1]>>]

CallsMade == [c \in 1..Len(calls) |-> <<calls[c].file.name, calls[c].radius>>]

\* the non-empty frames one coordinate file contributes
FileFrames(f) ==
    SelectSeq([k \in 1..Len(RadiusList) |->
                  with_subject_id(
                      extract_buffer_zone_data(Self, f, default_image,
                                               RadiusList[k]).df,
                      extract_subject_id(f.name))],
              LAMBDA df : df # <<>>)

RECURSIVE RunFrames(_)
\* all_results of a run over the coordinate files `files`
RunFrames(files) ==
    IF files = <<>> THEN <<>>
    ELSE FileFrames(Head(files)) \o RunFrames(Tail(files))

C3_FailingFileIsolated ==
    /\ pc = "raised" => ~RadiiConfigured
    /\ LoopDone =>
          /\ CallsMade = ExpectedCalls
          /\ all_results =
                 RunFrames(SelectSeq(SubjectFiles, LAMBDA f : ~FailingFile(f)))

\* a failing file was listed before a readable one, with two radii
C3_Witness ==
    /\ LoopDone
    /\ RadiiConfigured
    /\ Len(RadiusList) >= 2
    /\ \E a, b \in 1..Len(calls) :
          /\ a < b
          /\ FailingFile(calls[a].file)
          /\ ~FailingFile(calls[b].file)

(***************************************************************************)
(* C5.  Rows are ordered by coordinate file in sorted path order, then by  *)
(* radius in configured order, then by seed in file order, and the         *)
(* concatenation keeps every row in its place: the listing is sorted, the  *)
(* extraction calls follow the (file, radius) order, the frames collected  *)
(* are those of the calls that gave rows, in call order and with seed      *)
(* numbers increasing, and a written table is the frames' rows in order.   *)
(***************************************************************************)
\* the name s sorts before the name t: code point by code point, a proper
\* prefix first
NameBefore(s, t) ==
    \E k \in 1..(Len(s) + 1) :
        /\ k <= Len(t)
        /\ \A j \in 1..(k - 1) : s[j] = t[j]
        /\ k <= Len(s) => s[k] < t[k]

\* the extraction calls that gave rows, in call order
ProducingCalls == SelectSeq(calls, LAMBDA c : c.rows > 0)

RECURSIVE RowsOf(_)
\* the rows of a list of frames, one frame after the other
RowsOf(frames) ==
    IF frames = <<>> THEN <<>> ELSE Head(frames) \o RowsOf(Tail(frames))

C5_RowsInLoopOrder ==
    /\ \A n \in 1..(Len(coord_files) - 1) :
           NameBefore(coord_files[n].name, coord_files[n + 1].name)
    /\ calls # <<>> =>
           LET files == SubjectFiles
               radii == RadiusList
           IN /\ Len(calls) <= Len(files) * Len(radii)
              /\ \A c \in 1..Len(calls) :
                     /\ calls[c].file.name
                            = files[((c - 1) \div Len(radii)) + 1].name
                     /\ calls[c].radius = radii[((c - 1) % Len(radii)) + 1]
    /\ Len(all_results) = Len(ProducingCalls)
    /\ \A j \in 1..Len(all_results) :
           /\ Len(all_results[j]) = ProducingCalls[j].rows
           /\ \A r \in 1..Len(all_results[j]) :
                  all_results[j][r].subject_id = ProducingCalls[j].subject_id
           /\ \A r, q \in 1..Len(all_results[j]) :
                  r < q => all_results[j][r].seed_id < all_results[j][q].seed_id
    /\ output_csv.exists => output_csv.rows = RowsOf(all_results)

\* a run over two coordinate files listed in reverse order, with two
\* different radii, has made all its calls
C5_Witness ==
    /\ LoopDone
    /\ listdir_reversed
    /\ Len(SubjectFiles) >= 2
    /\ Len(RadiusList) = 2
    /\ RadiusList[1] # RadiusList[2]
    /\ CallsMade = ExpectedCalls

(***************************************************************************)
(* C6.  The output table is written at most once, only after every         *)
(* (coordinate file, radius) pair was processed, and the file never holds  *)
(* anything but the whole table.                                           *)
(***************************************************************************)
C6_WrittenOnceWhole ==
    /\ writes <= 1
    /\ output_csv.exists <=> writes = 1
    /\ output_csv.exists =>
          /\ pc \in {"returned", "done"}
          /\ CallsMade = ExpectedCalls
          /\ output_csv.rows = pd_concat(all_results)

\* a run over at least two (file, radius) pairs has completed
C6_Witness ==
    /\ LoopDone
    /\ Len(calls) >= 2
    /\ CallsMade = ExpectedCalls

(***************************************************************************)
(* C7.  When no (coordinate file, radius) pair produces a record, the run  *)
(* completes: it never raises, never stops before the end, and writes no   *)
(* output table.                                                           *)
(***************************************************************************)
NoRecordProduced == \A c \in 1..Len(calls) : calls[c].rows = 0

C7_NoRecordsNoOutput ==
    NoRecordProduced =>
        /\ pc # "raised"
        /\ pc \notin {"run", "done"} =>
               ENABLED (loop_subject \/ loop_extract \/ loop_next_file
                            \/ write_table \/ run_finish)
        /\ pc = "done" => ~output_csv.exists /\ writes = 0

C9_AllowOverlapIgnored ==
    /\ u_calls > 0 =>
          ret = _apply_mask_and_get_affinity(
                    u_seeds, u_niimg, u_radius, ~u_allow_overlap, u_mask_img)
    /\ RecordsBuilt =>
          /\ records =
                 build_results(
                     u_seeds, u_radius,
                     _apply_mask_and_get_affinity(
                         u_seeds, u_niimg, u_radius, ~u_allow_overlap,
                         u_mask_img)).df
          /\ \A i, j \in 1..Len(u_seeds) :
                 \A v \in UnitBall(i) \cap UnitBall(j) :
                     /\ ColumnOf(v) \in ret.A[i] \cap ret.A[j]
                     /\ RecordsOfSeed(i) # {} /\ RecordsOfSeed(j) # {}

\* two different seeds share a voxel, with overlap not allowed
C9_Witness ==
    /\ RecordsBuilt
    /\ ~u_allow_overlap
    /\ \E i, j \in 1..Len(u_seeds) :
          /\ u_seeds[i] # u_seeds[j]
          /\ UnitBall(i) \cap UnitBall(j) # {}

(***************************************************************************)
(* C10.  The voxel_count of a seed is the number of mask-active voxels     *)
(* whose Euclidean distance to the seed in world coordinates is at most    *)
(* the radius, by brute force over the active voxels; a seed with none has *)
(* no record.                                                              *)
(***************************************************************************)
C10_VoxelCountIsPhysicalBall ==
    RecordsBuilt =>
        \A i \in 1..Len(u_seeds) :
            /\ Cardinality(RecordsOfSeed(i)) =
                   (IF UnitBall(i) = {} THEN 0 ELSE 1)
            /\ \A k \in RecordsOfSeed(i) :
                   /\ records[k].voxel_count = Cardinality(UnitBall(i))
                   /\ Cardinality(ret.A[i]) = Cardinality(UnitBall(i))

\* a seed whose ball in mm differs from its ball in voxel indices
C10_Witness ==
    /\ RecordsBuilt
    /\ \E i \in 1..Len(u_seeds) :
          /\ UnitBall(i) # {}
          /\ Cardinality(UnitBall(i)) # Cardinality(RawBall(i))

(***************************************************************************)
(* C11.  Radius sweep: for two finished calls on the same seeds, image and *)
(* mask with radii r1 <= r2, the voxel_count of every seed at r2 is at     *)
(* least its voxel_count at r1 (no record counting as 0), so a seed with a *)
(* record at r1 has a record at r2.                                        *)
(***************************************************************************)
\* the voxel_count the h-th finished call reported for seed i (1-based)
HistCount(h, i) ==
    LET rows == {k \in 1..Len(u_history[h].records) :
                    u_history[h].records[k].seed_id = i - 1}
    IN IF rows = {} THEN 0
       ELSE u_history[h].records[CHOOSE k \in rows : TRUE].voxel_count

C11_RadiusMonotone ==
    \A a, b \in 1..Len(u_history) :
        u_history[a].radius <= u_history[b].radius
        => \A i \in 1..Len(u_seeds) : HistCount(a, i) <= HistCount(b, i)

\* a seed with a record at the smaller radius gains voxels at the larger
C11_Witness ==
    \E a, b \in 1..Len(u_history) :
        /\ u_history[a].radius < u_history[b].radius
        /\ \E i \in 1..Len(u_seeds) :
              /\ HistCount(a, i) >= 1
              /\ HistCount(a, i) < HistCount(b, i)

(***************************************************************************)
(* C12.  Determinism: a second run on the same coordinate files, images    *)
(* and configuration, whatever order the directory listing comes in,       *)
(* leaves the same output table as the first; it also passes the same      *)
(* (file, radius) pairs to extraction in the same order and collects the   *)
(* same frames.                                                            *)
(***************************************************************************)
SecondRunDone == pc = "done" /\ ~IsNone(prev_run)

C12_Deterministic ==
    SecondRunDone =>
        /\ output_csv = prev_run.output_csv
        /\ calls = prev_run.calls
        /\ all_results = prev_run.all_results

\* both runs went through two coordinate files, listed in opposite orders
C12_Witness ==
    /\ SecondRunDone
    /\ listdir_reversed # prev_run.listdir_reversed
    /\ \E a, b \in 1..Len(calls) : calls[a].file.name # calls[b].file.name

(***************************************************************************)
(* C13.  A call whose mask has no active voxel does not raise: it returns, *)
(* every seed has an empty neighbour set, and the record loop yields zero  *)
(* records without an error being logged.                                  *)
(***************************************************************************)
\* the mask of the direct call has no active voxel
EmptyMask ==
    /\ ~IsNone(u_mask_img)
    /\ \A v \in VoxelsOf(u_mask_img.shape) : u_mask_img.data[v] = 0

C13_EmptyMaskNoRaise ==
    (u_calls > 0 /\ EmptyMask /\ u_seeds # <<>>) =>
        /\ ~ret.raised
        /\ \A i \in 1..Len(u_seeds) : ret.A[i] = {}
        /\ records = <<>>
        /\ log = <<>>

(***************************************************************************)
(* Reference definitions for the degenerate radius.                        *)
(***************************************************************************)
\* the voxel grid of a direct call
UnitGrid ==
    IF IsNone(u_niimg) THEN VoxelsOf(u_mask_img.shape)
    ELSE VoxelsOf(u_niimg.shape)

\* squared distances (mm^2) between two different voxel centres of the grid
CentreGaps2 ==
    {Dist2(WorldOf(v, UnitAffine), WorldOf(w, UnitAffine)) :
        v \in UnitGrid, w \in UnitGrid} \ {0}

\* the square of the minimum inter-voxel spacing
MinSpacing2 == CHOOSE g \in CentreGaps2 : \A h \in CentreGaps2 : g <= h

\* seed number i (1-based) lies exactly on a voxel centre
OnVoxelCentre(i) == \E v \in UnitGrid : WorldOf(v, UnitAffine) = u_seeds[i]

(***************************************************************************)
(* C14.  Original statement: a seed that is not on a voxel centre, queried *)
(* with a radius smaller than the minimum inter-voxel spacing, matches no  *)
(* voxel and has no record.                                                *)
(***************************************************************************)
C14_DegenerateRadius ==
    RecordsBuilt =>
        \A i \in 1..Len(u_seeds) :
            (~OnVoxelCentre(i) /\ u_radius * u_radius < MinSpacing2)
            => ret.A[i] = {} /\ RecordsOfSeed(i) = {}

(***************************************************************************)
(* C14, amended.  A seed farther than the radius from every active voxel   *)
(* centre matches no voxel and has no record; with a radius smaller than   *)
(* half the minimum inter-voxel spacing a seed matches at most one voxel,  *)
(* and it has a record, with voxel_count 1, exactly when an active centre  *)
(* lies within the radius, whether or not the seed is on a centre.         *)
(***************************************************************************)
C14_SmallRadiusAtMostOne ==
    RecordsBuilt =>
        \A i \in 1..Len(u_seeds) :
            /\ UnitBall(i) = {} => ret.A[i] = {} /\ RecordsOfSeed(i) = {}
            /\ 4 * u_radius * u_radius < MinSpacing2 =>
                  /\ Cardinality(ret.A[i]) <= 1
                  /\ RecordsOfSeed(i) # {} <=> UnitBall(i) # {}
                  /\ \A k \in RecordsOfSeed(i) : records[k].voxel_count = 1

\* a seed off every voxel centre has a record at a radius below half the
\* spacing
C14_Witness ==
    /\ RecordsBuilt
    /\ u_radius > 0
    /\ 4 * u_radius * u_radius < MinSpacing2
    /\ \E i \in 1..Len(u_seeds) :
          ~OnVoxelCentre(i) /\ RecordsOfSeed(i) # {}

(***************************************************************************)
(* C15.  When every voxel of the image has the same intensity c, every     *)
(* record built has std_value 0 and mean_value, max_value and min_value    *)
(* equal to c.                                                             *)
(***************************************************************************)
\* the image of the direct call has the same intensity at every voxel
ConstantImage ==
    /\ ~IsNone(u_niimg)
    /\ \A v, w \in VoxelsOf(u_niimg.shape) : u_niimg.data[v] = u_niimg.data[w]

\* that intensity
ConstantOf == u_niimg.data[<<0, 0, 0>>]

\* the float32 number f is the integer c
IsTheInteger(f, c) == f # <<>> /\ f[2] >= 0 /\ f[1] * (2 ^ f[2]) = c

C15_ConstantImageStats ==
    (RecordsBuilt /\ ConstantImage) =>
        \A k \in 1..Len(records) :
            /\ IsTheInteger(records[k].std_value, 0)
            /\ IsTheInteger(records[k].mean_value, ConstantOf)
            /\ IsTheInteger(records[k].max_value, ConstantOf)
            /\ IsTheInteger(records[k].min_value, ConstantOf)

(***************************************************************************)
(* C16.  The seed_id of a record is the zero-based row position of its     *)
(* seed in the coordinate table: the record carries the coordinates of     *)
(* that row, the records are in increasing seed_id, a skipped seed leaves  *)
(* a gap, and two rows with equal coordinates have two records that differ *)
(* in seed_id only.                                                        *)
(***************************************************************************)
\* the record of seed number i (1-based), when it has one
RecordOf(i) == records[CHOOSE k \in RecordsOfSeed(i) : TRUE]

C16_SeedIdIsRowPosition ==
    RecordsBuilt =>
        /\ \A k \in 1..Len(records) :
               /\ records[k].seed_id \in 0..(Len(u_seeds) - 1)
               /\ <<records[k].x, records[k].y, records[k].z>>
                      = u_seeds[records[k].seed_id + 1]
        /\ \A k, m \in 1..Len(records) :
               k < m => records[k].seed_id < records[m].seed_id
        /\ \A i \in 1..Len(u_seeds) :
               Cardinality(RecordsOfSeed(i)) =
                   (IF UnitBall(i) = {} THEN 0 ELSE 1)
        /\ \A i, j \in 1..Len(u_seeds) :
               (i # j /\ u_seeds[i] = u_seeds[j] /\ RecordsOfSeed(i) # {})
               => /\ RecordsOfSeed(j) # {}
                  /\ [RecordOf(i) EXCEPT !.seed_id = j - 1] = RecordOf(j)

\* two equal rows with records, around a skipped row
C16_Witness ==
    /\ RecordsBuilt
    /\ \E i, j, k \in 1..Len(u_seeds) :
          /\ i < j /\ j < k
          /\ u_seeds[i] = u_seeds[k]
          /\ RecordsOfSeed(i) # {} /\ RecordsOfSeed(k) # {}
          /\ RecordsOfSeed(j) = {}

(***************************************************************************)
(* C17.  The subject_id of a coordinate file is the leftmost run of four   *)
(* consecutive digits of its base name ("6966_coords.csv" gives "6966");   *)
(* it is the subject_id in force at every extraction call for the file.    *)
(* A file whose name has no such run gets None and is never passed to      *)
(* extraction.                                                             *)
(***************************************************************************)
\* the decimal digits of all scripts
DecimalDigits == UNION {zero..(zero + 9) : zero \in DigitZeros}

\* characters i..i+3 of the name are decimal digits
FourDigitsAt(name, i) ==
    /\ i >= 1
    /\ i + 3 <= Len(name)
    /\ \A k \in i..(i + 3) : name[k] \in DecimalDigits

HasFourDigits(name) == \E i \in 1..Len(name) : FourDigitsAt(name, i)

\* the first four digits of the leftmost place with four digits in a row
LeftmostFourDigits(name) ==
    LET i == CHOOSE a \in 1..Len(name) :
                 /\ FourDigitsAt(name, a)
                 /\ \A b \in 1..(a - 1) : ~FourDigitsAt(name, b)
    IN <<name[i], name[i + 1], name[i + 2], name[i + 3]>>

\* the answer the claim gives for a base name
SubjectOf(name) ==
    IF HasFourDigits(name)
    THEN [kind |-> "str", value |-> LeftmostFourDigits(name)]
    ELSE [kind |-> "None"]

C17_SubjectIdFromName ==
    /\ extract_subject_id(NAME_6966_COORDS).value = <<54, 57, 54, 54>>
    /\ \A n \in 1..Len(coord_files) :
           extract_subject_id(coord_files[n].name)
               = SubjectOf(coord_files[n].name)
    /\ \A c \in 1..Len(calls) :
           /\ HasFourDigits(calls[c].file.name)
           /\ calls[c].subject_id = SubjectOf(calls[c].file.name)
    /\ pc = "loop" /\ radius_i >= 1 =>
           subject_id = SubjectOf(coord_files[file_i].name)

\* a run over a name with two digit runs and a name with none
C17_Witness ==
    /\ LoopDone
    /\ \E c \in 1..Len(calls) :
          /\ calls[c].file.name = NAME_MIXED_DIGITS
          /\ calls[c].subject_id.value = <<49, 50, 1635, 1636>>
    /\ \E n \in 1..Len(coord_files) :
          /\ ~HasFourDigits(coord_files[n].name)
          /\ \A c \in 1..Len(calls) : calls[c].file.name # coord_files[n].name

(***************************************************************************)
(* C18.  validate_config returns without raising exactly for the           *)
(* configurations that contain the sections pipeline, paths and logging,   *)
(* whose paths section contains input_dir, output_dir and logs_dir, and    *)
(* whose logging level, when present, is DEBUG, INFO, WARNING or ERROR in  *)
(* any letter case; for every other configuration it raises ValueError;    *)
(* and the configuration is the same after the call.                       *)
(***************************************************************************)
\* two characters that are equal or the two cases of one letter
SameLetter(a, b) ==
    \/ a = b
    \/ a \in 65..90 /\ b = a + 32
    \/ b \in 65..90 /\ a = b + 32

\* the string s is the level name t in some letter case
IsLevelName(s, t) ==
    Len(s) = Len(t) /\ \A k \in 1..Len(s) : SameLetter(s[k], t[k])

HasSections(cfg) ==
    cfg.kind = "dict" /\ {"pipeline", "paths", "logging"} \subseteq cfg.sections

HasPaths(cfg) ==
    /\ cfg.paths.kind = "dict"
    /\ {"input_dir", "output_dir", "logs_dir"} \subseteq cfg.paths.keys

LevelPresent(cfg) == cfg.logging.kind = "dict" /\ cfg.logging.has_level

LevelAccepted(cfg) ==
    /\ cfg.logging.level.kind = "str"
    /\ \E t \in {LEVEL_DEBUG, LEVEL_INFO, LEVEL_WARNING, LEVEL_ERROR} :
           IsLevelName(cfg.logging.level.value, t)

\* the configurations the claim says are accepted
ValidConfig(cfg) ==
    /\ HasSections(cfg)
    /\ HasPaths(cfg)
    /\ LevelPresent(cfg) => LevelAccepted(cfg)

C18_ValidateConfig ==
    validation.call = "validate_config" =>
        /\ validation.raised = "none" <=> ValidConfig(v_input)
        /\ ~ValidConfig(v_input) => validation.raised = "ValueError"
        /\ v_config = v_input

(***************************************************************************)
(* Reference definitions for run_pipeline.                                 *)
(***************************************************************************)
KnownSteps ==
    {"roi_extraction", "buffer_zone", "variable_extraction", "consolidation"}

\* every requested name is a known step
AllKnown == \A k \in 1..Len(steps) : steps[k] \in KnownSteps

\* the name ends in one of the suffixes
HasSuffix(name, suffixes) ==
    \E x \in suffixes :
        /\ Len(x) <= Len(name)
        /\ \A k \in 1..Len(x) : name[Len(name) - Len(x) + k] = x[k]

\* the .csv files of the coordinates directory
ListedTables ==
    {e \in coordinates_dir.entries : e.isfile /\ HasSuffix(e.name, {CSV})}

\* the coordinates directory holds a .csv file and the images directory a
\* .nii.gz or .nii file
InputsListed ==
    /\ coordinates_dir.exists /\ ListedTables # {}
    /\ images_dir.exists
    /\ \E e \in images_dir.entries :
           e.isfile /\ HasSuffix(e.name, {NIIGZ, NII})

\* the loaded configuration is a mapping whose buffer_zone, when present, is
\* a mapping
ConfigIsMapping ==
    /\ bz_config.kind = "dict"
    /\ KeysNamed(bz_config, KEY_BUFFER_ZONE) # {} =>
           ValueOf(bz_config, KEY_BUFFER_ZONE).kind = "dict"

\* BufferZoneAnalyzer.run raises: with inputs listed, when the radii cannot
\* be looked up, or cannot be iterated for a file with a subject identifier
BufferZoneRaises ==
    /\ InputsListed
    /\ \/ ~ConfigIsMapping
       \/ ~RadiiConfigured /\ \E e \in ListedTables : HasFourDigits(e.name)

\* run() of the step raised an Exception
StepRaised(name) ==
    IF name = "buffer_zone" THEN BufferZoneRaises
    ELSE run_outcome[name] = "raises"

\* a BaseException outside Exception left run() of the step
StepInterrupted(name) ==
    name # "buffer_zone" /\ run_outcome[name] = "interrupted"

\* the started steps whose run() raised
RaisedSteps == {k \in 1..Len(started) : StepRaised(started[k])}

PipelineFinished == pc = "finished"

(***************************************************************************)
(* C19.  For a list of known step names run_pipeline counts every step     *)
(* whose run() completed without raising, and returns True exactly when no *)
(* requested step raised.                                                  *)
(***************************************************************************)
C19_TrueIffNoStepRaised ==
    (PipelineFinished /\ AllKnown) =>
        /\ success_count = Len(started) - Cardinality(RaisedSteps)
        /\ result.value <=> RaisedSteps = {}

(***************************************************************************)
(* C20.  The requested steps are started in the order given, each once: at *)
(* every moment the started steps are the requested ones up to the loop    *)
(* position, whatever run() of a step did the loop goes on, and at the end *)
(* all of them were started, whichever of them raised an Exception; only a *)
(* BaseException outside Exception (an interrupt) leaves the loop.  When   *)
(* the list holds an unknown name no step is started and the result is     *)
(* False.                                                                  *)
(***************************************************************************)
C20_StepsIsolated ==
    /\ pc = "pipeline" => started = <<>>
    /\ pc = "steps" =>
          /\ step_i <= Len(steps) + 1
          /\ started = SubSeq(steps, 1, step_i - 1)
    /\ pc \in {"run", "loop", "returned", "done", "raised"} =>
          /\ step_i <= Len(steps)
          /\ steps[step_i] = "buffer_zone"
          /\ started = SubSeq(steps, 1, step_i)
    /\ (PipelineFinished /\ AllKnown) => started = steps
    /\ (PipelineFinished /\ ~AllKnown) =>
          started = <<>> /\ result = [kind |-> "bool", value |-> FALSE]
    /\ pc = "propagated" => StepInterrupted(started[Len(started)])
    /\ (pc = "steps" /\ step_i <= Len(steps)) =>
          ENABLED (pipeline_step \/ pipeline_step_call)
    /\ pc \in {"done", "raised"} => ENABLED pipeline_step_return

\* two steps raised and the step requested after each was started all the
\* same, the first being the batch run under an empty configuration file
C20_Witness ==
    /\ PipelineFinished
    /\ AllKnown
    /\ Len(steps) >= 2
    /\ steps[1] = "buffer_zone"
    /\ steps[2] # "buffer_zone"
    /\ StepRaised(steps[1])
    /\ StepRaised(steps[2])
    /\ started = steps

====
